---- MODULE Spec2Model ----
(***************************************************************************)
(* Controller-constrained job-shop scheduling agent (ControllerJSSAgent,   *)
(* src/controller_agent.py): its decision function __call__, its episode   *)
(* runner run_episode, and the simulation environment it drives.           *)
(*                                                                         *)
(* Times are integers (the instance's durations and the clock are          *)
(* integers); the float thresholds of the code are compared exactly:       *)
(*   s <= t + 0.1            is  s <= t                                    *)
(*   w <= max(0.1*maxT, 1.0) is  10*w <= max(maxT, 10)                     *)
(*   u/n > 0.8               is  5*u > 4*n                                 *)
(* and the composite score is carried as an integer multiple               *)
(* (100 * 10 * maxT * machines * num_people) of the float score.           *)
(*                                                                         *)
(* The environment (gym 'jss-v1') is an external collaborator: it is       *)
(* modelled as any discrete-event simulator that honours the contract of   *)
(* the fields the agent reads and of reset()/step().                       *)
(***************************************************************************)
EXTENDS Integers, Sequences, FiniteSets, TLC

VARIABLES
  instance_matrix,                  \* env.instance_matrix[job][op] = <<machine, duration>>
  controller,                       \* self.controller, in file order: << <<person, machines>>, ... >>
  num_people,                       \* self.num_people
  policy,                           \* the agent that drives the episode
  current_time_step,                \* env.current_time_step
  todo_time_step_job,               \* env.todo_time_step_job[job]
  time_until_available_machine,     \* env.time_until_available_machine[machine]
  time_until_finish_current_op_jobs,\* env: remaining time of the job's running operation
  legal_actions,                    \* the legality mask, indices 0..jobs
  env_done,                         \* the done flag of the last step
  truncated,                        \* the truncated flag of the last step
  max_time_op,                      \* env.max_time_op
  irregular,                        \* env: masks published that mark a job that is not ready
  people_assignments,               \* self.people_assignments, in dict (insertion) order
  consecutive_no_ops,               \* self.consecutive_no_ops
  last_action_time,                 \* self.last_action_time
  pc,                               \* position of run_episode: "call", "step", "finished", "raised"
  action,                           \* the value __call__ returned
  iteration_count,                  \* run_episode: iteration_count
  schedule,                         \* run_episode: schedule
  completed_ops,                    \* run_episode: completed_ops[job]
  episode,                          \* number of the run_episode call in progress
  dec,                              \* history: what the last __call__ saw and did
  committed_until,                  \* history: per person, the latest end_time committed in this episode
  noop_run,                         \* history: consecutive no-op returns with a legal job present
  noop_run_near,                    \* history: the same, restarted when the clock jumped by > 1
  noop_limit,                       \* history: at the start of that run, the time until the last assignment ends
  dispatched,                       \* history: job actions passed to env.step in this episode
  first_action,                     \* history: the first action of the first episode
  results,                          \* JSSComparisonFramework.results: the methods with recorded statistics
  comparing,                        \* position of run_comprehensive_comparison
  lookahead,                        \* StreamAdaptiveLookAheadAgent.__call__: the candidates left, the environment it met
  connections,                      \* StreamManager.connections[client]
  sessions,                         \* StreamManager.sessions[session]
  lock,                             \* StreamManager._lock: the coroutine that holds it, 0 when free
  tasks,                            \* the coroutines running on the event loop and their positions
  service,                          \* JSSStreamingService: position of _run_comparison_background, active_tasks
  framework,                        \* position of run_comprehensive_comparison_stream
  events                            \* history: the events the stream callback received, in order

vars == << instance_matrix, max_time_op, controller, num_people, policy, current_time_step,
           todo_time_step_job, time_until_available_machine,
           time_until_finish_current_op_jobs, legal_actions, env_done, truncated,
           irregular, people_assignments, consecutive_no_ops, last_action_time,
           pc, action, iteration_count, schedule, completed_ops, episode,
           dec, committed_until, noop_run, noop_run_near, noop_limit, dispatched,
           first_action, results, comparing, lookahead, connections, sessions, lock,
           tasks, service, framework, events >>

stream_vars == << lookahead, connections, sessions, lock, tasks, service, framework, events >>

comparison_vars == << results, comparing >>
config_vars == << instance_matrix, max_time_op, controller, num_people, policy >>
env_vars == << current_time_step, todo_time_step_job, time_until_available_machine,
               time_until_finish_current_op_jobs, legal_actions, env_done,
               truncated, irregular >>
agent_vars == << people_assignments, consecutive_no_ops, last_action_time >>

----------------------------------------------------------------------------
(* Bounds of the model *)

MaxClock == 6        \* the environment truncates the episode at this clock
MaxAdv == 2          \* largest clock advance of one environment step
MaxEpisodes == 2     \* run_episode calls on the same agent instance
MaxIrregular == 1    \* masks per episode that mark legal a job that is not ready
num_episodes == 1    \* episodes per method of a comparison
MaxRuleFailures == 1 \* dispatching rules whose evaluation raises in a comparison

(* Program constants *)

max_consecutive_no_ops == 5
IterationFactor == 10

----------------------------------------------------------------------------
(* Instances and controllers the behaviours are drawn from *)

InstExample == << << <<0, 3>>, <<1, 2>> >>, << <<1, 4>>, <<0, 1>> >> >>
InstLong    == << << <<0, 8>>, <<1, 8>> >>, << <<1, 7>>, <<0, 1>> >> >>
InstSame    == << << <<0, 2>>, <<1, 1>> >>, << <<0, 1>>, <<1, 2>> >> >>
InstPair    == << << <<0, 2>> >>, << <<0, 1>> >> >>
InstTier    == << << <<0, 1>>, <<1, 1>> >>, << <<1, 4>>, <<0, 4>> >> >>
InstBand    == << << <<0, 4>>, <<1, 8>> >>, << <<1, 2>>, <<0, 4>> >> >>

CtrlOne     == << <<1, {0, 1}>> >>
CtrlSplit   == << <<1, {0}>>, <<2, {1}>> >>
CtrlMissing == << <<1, {0}>>, <<2, {0}>> >>
CtrlSolo    == << <<1, {0}>> >>
CtrlTwo     == << <<1, {0, 1}>>, <<2, {0, 1}>> >>
CtrlLead    == << <<1, {0, 1}>>, <<2, {0}>> >>
CtrlRear    == << <<1, {0}>>, <<2, {0, 1}>> >>

Configurations ==
  { <<InstExample, CtrlSplit>>, <<InstExample, CtrlOne>>, <<InstLong, CtrlOne>>,
    <<InstSame, CtrlMissing>> }

\* the configurations of the runs that go through every branch of the selection
\* cascade: one person for two machines, alone or beside a person for machine 0 only
TierConfigurations == { <<InstTier, CtrlLead>>, <<InstLong, CtrlOne>> }

\* the configuration of the runs in which candidates wait for their machine
BandConfigurations == { <<InstBand, CtrlRear>> }

\* the configuration of the runs that call run_episode more than once
RepeatConfigurations == { <<InstPair, CtrlSolo>> }

----------------------------------------------------------------------------
(* The instance as the environment exposes it *)

Max(a, b) == IF a >= b THEN a ELSE b

jobs == Len(instance_matrix)
machines == Len(instance_matrix[1])
JobIds == 0 .. (jobs - 1)
MachineIds == 0 .. (machines - 1)
NoOp == jobs

OpsOf(j) == Len(instance_matrix[j + 1])
MachineOf(j, k) == instance_matrix[j + 1][k + 1][1]
ProcTime(j, k) == instance_matrix[j + 1][k + 1][2]

\* the largest duration of the instance, as the environment computes it at load
MaxTimeOp(inst) ==
  LET durations == { inst[j][k][2] : j \in 1 .. Len(inst), k \in 1 .. Len(inst[1]) }
  IN CHOOSE x \in durations : \A y \in durations : y <= x

RECURSIVE SumProc(_, _, _)
SumProc(j, from, to) ==
  IF from >= to THEN 0 ELSE ProcTime(j, from) + SumProc(j, from + 1, to)

RECURSIVE SumTodo(_)
SumTodo(n) == IF n = 0 THEN 0 ELSE todo_time_step_job[n - 1] + SumTodo(n - 1)

----------------------------------------------------------------------------
(* The assignment table: a dict person_id -> {machine_id, end_time, job_id} *)

HasAssignment(pa, p) == \E i \in 1 .. Len(pa) : pa[i].person_id = p
AssignmentOf(pa, p) == pa[CHOOSE i \in 1 .. Len(pa) : pa[i].person_id = p]

\* self.people_assignments[p] = {...}: a present key keeps its place, a new key goes last
SetAssignment(pa, p, a) ==
  IF HasAssignment(pa, p)
    THEN [i \in 1 .. Len(pa) |-> IF pa[i].person_id = p THEN a ELSE pa[i]]
    ELSE Append(pa, a)

\* variant: an entry that ends exactly at the clock is kept
EndedBefore(a, t) == a.end_time < t

IsExpired(a, t) == a.end_time <= t

_cleanup_expired_assignments(pa, t) == SelectSeq(pa, LAMBDA a : ~IsExpired(a, t))

\* variant: every person of the controller is taken as qualified
EveryoneIdx(m) == 1 .. Len(controller)

\* lines 49-50: the controller entries that list the machine
QualifiedIdx(m) == { i \in 1 .. Len(controller) : m \in controller[i][2] }

\* variant: the person's current assignment is not looked at
AvailableNow(pa, i, t) == t

\* the available_time appended for the i-th controller entry
AvailableTime(pa, i, t) ==
  IF ~HasAssignment(pa, controller[i][1]) THEN t
  ELSE Max(t, AssignmentOf(pa, controller[i][1]).end_time)

\* variant: the last of the smallest
LastMin(f) ==
  CHOOSE i \in DOMAIN f : \A k \in DOMAIN f : f[i] < f[k] \/ (f[i] = f[k] /\ i >= k)

\* min(..., key = ...) over a list: the first of the smallest
FirstMin(f) ==
  CHOOSE i \in DOMAIN f : \A k \in DOMAIN f : f[i] < f[k] \/ (f[i] = f[k] /\ i <= k)

\* max(d.keys(), key = ...) over a dict filled in ascending job order
FirstMax(S, f) ==
  CHOOSE j \in S : \A k \in S : f[j] > f[k] \/ (f[j] = f[k] /\ j <= k)

EarliestOf(avail) ==
  [person_id |-> controller[FirstMin(avail)][1], available_time |-> avail[FirstMin(avail)]]

\* qualified_people in controller order, and the earliest of them
_get_earliest_available_person(pa, m, t) ==
  EarliestOf([i \in QualifiedIdx(m) |-> AvailableTime(pa, i, t)])

\* start_time = max(person_available_time, current_time + machine_available_time)
Combination(j, current_op, best, t) ==
  [person_id |-> best.person_id,
   machine_id |-> MachineOf(j, current_op),
   start_time |-> Max(best.available_time,
                      t + time_until_available_machine[MachineOf(j, current_op)]),
   end_time |-> Max(best.available_time,
                    t + time_until_available_machine[MachineOf(j, current_op)])
                + ProcTime(j, current_op),
   current_op |-> current_op]

_find_best_person_machine_combination(pa, j, t) ==
  Combination(j, todo_time_step_job[j],
              _get_earliest_available_person(
                pa, MachineOf(j, todo_time_step_job[j]), t), t)

IsBusy(a, t) == a.end_time > t

\* busy_people of _get_resource_utilization
BusyPeople(pa, t) == Cardinality({ i \in 1 .. Len(pa) : IsBusy(pa[i], t) })

\* variant: the wait is summed over the busy people as well
RECURSIVE TotalTimeToFree(_, _)
TotalTimeToFree(pa, t) ==
  IF pa = << >> THEN 0
  ELSE Max(0, Head(pa).end_time - t) + TotalTimeToFree(Tail(pa), t)

\* total_wait_time of _get_resource_utilization: max(0, end_time - t) of the others
RECURSIVE TotalWaitTime(_, _)
TotalWaitTime(pa, t) ==
  IF pa = << >> THEN 0
  ELSE (IF IsBusy(Head(pa), t) THEN 0 ELSE Max(0, Head(pa).end_time - t))
       + TotalWaitTime(Tail(pa), t)

\* variant: one busy person counts as high utilization
AnyoneBusy(pa, t) == BusyPeople(pa, t) > 0

\* person_utilization > 0.8, with busy_people / num_people compared exactly
HighUtilization(pa, t) ==
  IF num_people > 0 THEN 5 * BusyPeople(pa, t) > 4 * num_people ELSE FALSE

\* avg_person_wait <= max_acceptable_wait * 0.5, both sides times 20 * num_people
ShortPersonWait(pa, t) ==
  IF num_people > 0
    THEN 20 * TotalWaitTime(pa, t) <= Max(max_time_op, 10) * num_people
    ELSE TRUE

----------------------------------------------------------------------------
(* _calculate_job_score_enhanced.  ScoreScale * 100 times the float score;  *)
(* the instances have max_time_op > 0 and num_people > 0, so the code's     *)
(* zero-divisor fallbacks are not taken.                                    *)

ScoreScale == 10 * max_time_op * machines * num_people

WeightsEarly  == << 15, 25, 20, 15, 10, 10, 5 >>
WeightsMiddle == << 20, 20, 20, 15, 15, 5, 5 >>
\* variant: the late stage gives the shortest-processing-time term 0.35
WeightsLateHeavy == << 35, 15, 25, 10, 10, 5, 5 >>
WeightsLate   == << 30, 15, 25, 10, 10, 5, 5 >>

\* progress = completed_ops / total_ops against 0.3 and 0.7
ScoreWeights(completed, total_ops) ==
  IF 10 * completed < 3 * total_ops THEN WeightsEarly
  ELSE IF 10 * completed < 7 * total_ops THEN WeightsMiddle
  ELSE WeightsLate

\* the seven terms, each ScoreScale times the float term
ScoreTerms(j, info, wait_time) ==
  << 10 * machines * num_people * (max_time_op - ProcTime(j, info.current_op)),
     10 * num_people * SumProc(j, info.current_op + 1, machines),
     10 * machines * num_people * Max(0, max_time_op - wait_time),
     10 * machines * num_people
        * (max_time_op - time_until_available_machine[info.machine_id]),
     10 * max_time_op * machines * Cardinality(QualifiedIdx(info.machine_id)),
     10 * max_time_op * num_people * (machines - (machines - info.current_op)),
     IF wait_time = 0 THEN ScoreScale
     ELSE Max(max_time_op * machines * num_people,
              10 * machines * num_people * (max_time_op - wait_time)) >>

WeightedSum(w, x) ==
  w[1] * x[1] + w[2] * x[2] + w[3] * x[3] + w[4] * x[4] + w[5] * x[5]
  + w[6] * x[6] + w[7] * x[7]

_calculate_job_score_enhanced(j, info, t) ==
  WeightedSum(ScoreWeights(SumTodo(jobs), jobs * machines),
              ScoreTerms(j, info, Max(0, info.start_time - t)))

----------------------------------------------------------------------------
(* ControllerJSSAgent.__call__ after the mask-length check                  *)

\* all_legal_jobs: legal, not completed, with an operation left in the matrix
all_legal_jobs ==
  { i \in JobIds : /\ legal_actions[i]
                   /\ todo_time_step_job[i] < machines
                   /\ todo_time_step_job[i] < OpsOf(i) }

NextMachine(i) == MachineOf(i, todo_time_step_job[i])

\* _get_earliest_available_person raises ValueError: nobody is qualified
NoQualifiedPerson(i) == QualifiedIdx(NextMachine(i)) = {}

\* variant: the except branch prints its warning and continues, it never re-raises
SkipsUnstaffedJobs == FALSE

\* variant: the error is raised only when no legal job has a qualified person
RaisesWhenNoJobIsStaffed ==
  all_legal_jobs # {} /\ \A i \in all_legal_jobs : NoQualifiedPerson(i)

\* the except branch re-raises when no controller entry lists the machine
RaisesConfigurationError == \E i \in all_legal_jobs : NoQualifiedPerson(i)

available_jobs == { i \in all_legal_jobs : ~NoQualifiedPerson(i) }

\* job_info and job_scores, keyed by the available jobs
job_info(pa, t) ==
  [j \in available_jobs |-> _find_best_person_machine_combination(pa, j, t)]

job_scores(info, t) ==
  [j \in DOMAIN info |-> _calculate_job_score_enhanced(j, info[j], t)]

\* immediate_jobs: start_time <= current_time + 0.1
immediate_jobs(info, t) == { j \in DOMAIN info : info[j].start_time <= t }

EarliestStart(starts) == CHOOSE s \in starts : \A x \in starts : s <= x

min_wait_time(info, t) == EarliestStart({ info[j].start_time : j \in DOMAIN info }) - t

\* min_wait_time <= max(env.max_time_op * 0.1, 1.0), both sides times 10
AcceptableWait(w) == 10 * w <= Max(max_time_op, 10)

\* variant: only the candidates whose wait is the minimum
ShortestWaitJobsOnly(info, w, t) == { j \in DOMAIN info : info[j].start_time - t <= w }

\* start_time - current_time <= min_wait_time + max(1.0, min_wait_time * 0.2), times 10
short_wait_jobs(info, w, t) ==
  { j \in DOMAIN info : 10 * (info[j].start_time - t) <= 10 * w + Max(10, 2 * w) }

\* variant: the cap compared with > instead of >=
CapExceeded(cnt) == cnt > max_consecutive_no_ops

\* if self.consecutive_no_ops >= self.max_consecutive_no_ops
CapReached(cnt) == cnt >= max_consecutive_no_ops

\* the branch of the selection cascade (lines 213-286) a decision takes
Tier(info, pa, cnt, t) ==
  IF immediate_jobs(info, t) # {} THEN "immediate"
  ELSE IF CapReached(cnt) THEN "cap"
  ELSE IF AcceptableWait(min_wait_time(info, t)) THEN "short_wait"
  ELSE IF HighUtilization(pa, t) /\ ShortPersonWait(pa, t) THEN "defer"
  ELSE "progress"

\* variant: every branch takes its maximum over all the candidates
TierJobsUnfiltered(kind, info, t) == DOMAIN info

\* the jobs a selecting branch chooses among
TierJobs(kind, info, t) ==
  CASE kind = "immediate"  -> immediate_jobs(info, t)
    [] kind = "short_wait" -> short_wait_jobs(info, min_wait_time(info, t), t)
    [] OTHER               -> DOMAIN info

\* return env.jobs if legal_actions[env.jobs] else 0
NoOpOrZero == IF legal_actions[jobs] THEN jobs ELSE 0

\* variant: the commit replaces the table by the chosen person's entry
CommitReplacingTable(pa, j, c) ==
  << [person_id |-> c.person_id, machine_id |-> c.machine_id,
      end_time |-> c.end_time, job_id |-> j] >>

\* the commit of a selected job: the chosen person's entry
Commit(pa, j, c) ==
  SetAssignment(pa, c.person_id,
                [person_id |-> c.person_id, machine_id |-> c.machine_id,
                 end_time |-> c.end_time, job_id |-> j])

\* a selecting branch: the commit, the counter reset, the returned job
Selected(kind, pa, j, c) ==
  [kind |-> kind, action |-> j, assignments |-> Commit(pa, j, c), no_ops |-> 0,
   chosen |-> c]

NoChoice == [person_id |-> 0, machine_id |-> 0, start_time |-> 0, end_time |-> 0,
             current_op |-> 0]

NotSelected(kind, a, pa, cnt) ==
  [kind |-> kind, action |-> a, assignments |-> pa, no_ops |-> cnt, chosen |-> NoChoice]

SelectIn(kind, pa, info, j) == Selected(kind, pa, j, info[j])

\* variant: the deferral branch books the best job's person before it returns
CascadeBookingOnDeferral(kind, pa, cnt, t, info) ==
  IF kind = "defer"
    THEN NotSelected(kind, NoOpOrZero,
                     Commit(pa, FirstMax(DOMAIN info, job_scores(info, t)),
                            info[FirstMax(DOMAIN info, job_scores(info, t))]),
                     cnt + 1)
  ELSE SelectIn(kind, pa, info, FirstMax(TierJobs(kind, info, t), job_scores(info, t)))

\* variant: the deferral branch returns without counting the no-op
CascadeDeferringUncounted(kind, pa, cnt, t, info) ==
  IF kind = "defer" THEN NotSelected(kind, NoOpOrZero, pa, cnt)
  ELSE SelectIn(kind, pa, info, FirstMax(TierJobs(kind, info, t), job_scores(info, t)))

\* variant: the cap branch leaves the counter as it is
CascadeKeepingCounterAtCap(kind, pa, cnt, t, info) ==
  IF kind = "defer" THEN NotSelected(kind, NoOpOrZero, pa, cnt + 1)
  ELSE [SelectIn(kind, pa, info, FirstMax(TierJobs(kind, info, t), job_scores(info, t)))
          EXCEPT !.no_ops = IF kind = "cap" THEN cnt ELSE 0]

\* lines 205-286: scoring and the selection cascade
Cascade(kind, pa, cnt, t, info) ==
  IF kind = "defer" THEN NotSelected(kind, NoOpOrZero, pa, cnt + 1)
  ELSE SelectIn(kind, pa, info, FirstMax(TierJobs(kind, info, t), job_scores(info, t)))

\* what __call__ returns and leaves behind, given the table after expiry and the
\* counter after the staleness reset
DecideOn(pa, cnt, t, info) ==
  IF available_jobs = {} THEN
    IF all_legal_jobs # {}
      THEN NotSelected("forced_first",
                       CHOOSE j \in all_legal_jobs : \A k \in all_legal_jobs : j <= k,
                       pa, cnt)
      ELSE NotSelected("no_candidate", NoOpOrZero, pa, cnt)
  ELSE Cascade(Tier(info, pa, cnt, t), pa, cnt, t, info)

Decide(pa, cnt, t) == DecideOn(pa, cnt, t, job_info(pa, t))

\* variant: the counter is reset whenever the clock has moved at all
StalenessResetOnAnyAdvance(cnt, last, t) == IF t > last THEN 0 ELSE cnt

\* if current_time > self.last_action_time + 1.0: self.consecutive_no_ops = 0
StalenessReset(cnt, last, t) == IF t > last + 1 THEN 0 ELSE cnt

SelectingKinds == { "immediate", "cap", "short_wait", "progress" }

----------------------------------------------------------------------------
(* The environment: reset() and step(action)                                *)

AllJobsLegal == [a \in 0 .. jobs |-> a < jobs]
NothingLegal == [a \in 0 .. jobs |-> FALSE]
Masks == [0 .. jobs -> BOOLEAN]

\* env.reset(): clock 0, nothing dispatched, every job legal, the no-op illegal
EnvReset ==
  /\ current_time_step' = 0
  /\ todo_time_step_job' = [j \in JobIds |-> 0]
  /\ time_until_available_machine' = [m \in MachineIds |-> 0]
  /\ time_until_finish_current_op_jobs' = [j \in JobIds |-> 0]
  /\ legal_actions' = AllJobsLegal
  /\ env_done' = FALSE
  /\ truncated' = FALSE
  /\ irregular' = 0

\* a job the simulator can start: not running, not completed, its machine free
Ready(j, todo, fin, tua) ==
  /\ fin[j] = 0
  /\ todo[j] < machines
  /\ tua[MachineOf(j, todo[j])] = 0

\* env.step(act): a job action starts the job's next operation on its machine; the
\* clock then advances by d (at least 1 on the no-op), running operations progress,
\* a job whose operation finishes moves to its next operation, and the environment
\* publishes a new mask: any subset of the ready jobs, the no-op legal or not, and
\* up to MaxIrregular times per episode any mask at all.  At the horizon the no-op
\* ends the episode as truncated.
EnvStepPublishing(act, d, mask, published) ==
  IF act = NoOp /\ current_time_step = MaxClock
  THEN /\ d = 1
       /\ mask = NothingLegal
       /\ truncated' = TRUE
       /\ legal_actions' = published
       /\ UNCHANGED << current_time_step, todo_time_step_job, time_until_available_machine,
                       time_until_finish_current_op_jobs, env_done, irregular >>
  ELSE
    LET is_job == act < jobs
        m == MachineOf(act, todo_time_step_job[act])
        dur == ProcTime(act, todo_time_step_job[act])
        tua1 == IF is_job THEN [time_until_available_machine EXCEPT ![m] = dur]
                ELSE time_until_available_machine
        fin1 == IF is_job THEN [time_until_finish_current_op_jobs EXCEPT ![act] = dur]
                ELSE time_until_finish_current_op_jobs
        tua2 == [x \in MachineIds |-> Max(0, tua1[x] - d)]
        fin2 == [j \in JobIds |-> Max(0, fin1[j] - d)]
        todo2 == [j \in JobIds |->
                    IF (fin1[j] > 0 \/ (is_job /\ j = act)) /\ fin2[j] = 0
                      THEN todo_time_step_job[j] + 1
                    ELSE todo_time_step_job[j]]
        done2 == \A j \in JobIds : todo2[j] >= machines
        odd == \E j \in JobIds : mask[j] /\ ~Ready(j, todo2, fin2, tua2)
    IN /\ current_time_step + d <= MaxClock
       /\ act = NoOp => d >= 1
       /\ IF done2 THEN mask = NothingLegal ELSE odd => irregular < MaxIrregular
       /\ current_time_step' = current_time_step + d
       /\ time_until_available_machine' = tua2
       /\ time_until_finish_current_op_jobs' = fin2
       /\ todo_time_step_job' = todo2
       /\ irregular' = IF odd /\ ~done2 THEN irregular + 1 ELSE irregular
       /\ env_done' = done2
       /\ truncated' = FALSE
       /\ legal_actions' = published

\* the step of an environment that publishes the mask it computed
EnvStep(act, d, mask) == EnvStepPublishing(act, d, mask, mask)

\* masks of a wrong length: one entry short or one entry long
BadMasks ==
  { [a \in 0 .. (n - 1) |-> b] : n \in { jobs, jobs + 2 }, b \in BOOLEAN }

----------------------------------------------------------------------------
(* run_episode                                                              *)

NoDecision == [kind |-> "none", clock |-> 0, before |-> << >>, table |-> << >>,
               no_ops |-> 0, last |-> 0, chosen |-> NoChoice, until |-> 0]

max_iterations == jobs * machines * IterationFactor

\* lines 420-432: the action run_episode passes on to env.step
ValidatedAction(a) ==
  IF a >= jobs /\ a # jobs THEN jobs
  ELSE IF a < jobs THEN
    IF todo_time_step_job[a] >= machines THEN jobs
    ELSE IF todo_time_step_job[a] >= OpsOf(a) THEN jobs
    ELSE IF ~legal_actions[a] THEN jobs
    ELSE a
  ELSE a

\* lines 442-455: the person of the record, the first matching table entry in dict
\* order, else the earliest available qualified person, else person 0
AssignedPerson(pa, a, machine_id, t) ==
  LET hits == { i \in 1 .. Len(pa) : pa[i].job_id = a /\ pa[i].machine_id = machine_id }
  IN IF hits # {}
       THEN pa[CHOOSE i \in hits : \A k \in hits : i <= k].person_id
     ELSE IF QualifiedIdx(machine_id) # {}
       THEN _get_earliest_available_person(pa, machine_id, t).person_id
     ELSE 0

\* lines 435-469: current_action_assignments[action]
ActionAssignment(pa, a, t) ==
  LET current_op == todo_time_step_job[a]
      machine_id == MachineOf(a, current_op)
      proc_time == ProcTime(a, current_op)
      machine_available_time == time_until_available_machine[machine_id]
      actual_start_time == Max(t, t + machine_available_time)
  IN [person_id |-> AssignedPerson(pa, a, machine_id, t), machine_id |-> machine_id,
      start_time |-> actual_start_time, end_time |-> actual_start_time + proc_time,
      current_op |-> current_op]

\* variant: every dispatch is appended
AlwaysRecord(done_ops, current_op) == TRUE

\* variant: only the first dispatch of a job is appended
RecordFirstOnly(done_ops, current_op) == done_ops = {}

\* line 487: only an operation not recorded before is appended
ShouldRecord(done_ops, current_op) == current_op \notin done_ops

\* variant: the schedule keeps one task per job, the latest
RecordLatestOfJob(sched, done_ops, a, asg) ==
  Append(SelectSeq(sched, LAMBDA task : task.job_id # a),
         [job_id |-> a, machine_id |-> asg.machine_id,
          start_time |-> asg.start_time, end_time |-> asg.end_time,
          person_id |-> asg.person_id, op |-> asg.current_op])

\* lines 481-498: the schedule after the step.  The op field is not part of the
\* recorded tuple; it names the operation the tuple stands for.
RecordTask(sched, done_ops, a, asg) ==
  IF ShouldRecord(done_ops, asg.current_op)
    THEN Append(sched, [job_id |-> a, machine_id |-> asg.machine_id,
                        start_time |-> asg.start_time, end_time |-> asg.end_time,
                        person_id |-> asg.person_id, op |-> asg.current_op])
    ELSE sched

\* no decision of the streaming look-ahead agent in progress
LookAheadIdle ==
  lookahead = [pending |-> {}, candidates |-> {}, scores |-> << >>, hooks |-> FALSE,
               arity |-> 4, todo |-> << >>, clock |-> 0]

\* no client, no session, no coroutine
ManagerIdle ==
  /\ connections = << >>
  /\ sessions = << >>
  /\ lock = 0
  /\ tasks = << >>

ServiceIdle == service = [pc |-> "idle"]

FrameworkIdle ==
  /\ framework = [pc |-> "idle"]
  /\ events = << >>

\* no streaming in progress
StreamIdle == LookAheadIdle /\ ManagerIdle /\ ServiceIdle /\ FrameworkIdle

\* the state after __init__ and reset; num_people is the constructor's argument,
\* the length of the controller file or, where fewer is set, any smaller count
EpisodeSetup(configs, policies, fewer) ==
  /\ \E c \in configs :
       /\ instance_matrix = c[1]
       /\ max_time_op = MaxTimeOp(c[1])
       /\ controller = c[2]
       /\ num_people \in (IF fewer THEN 1 .. Len(c[2]) ELSE { Len(c[2]) })
  /\ policy \in policies
  /\ results = {}
  /\ comparing = [status |-> "idle", method |-> 0, episode |-> 0, failed |-> {}]
  /\ current_time_step = 0
  /\ todo_time_step_job = [j \in 0 .. (Len(instance_matrix) - 1) |-> 0]
  /\ time_until_available_machine = [m \in 0 .. (Len(instance_matrix[1]) - 1) |-> 0]
  /\ time_until_finish_current_op_jobs = [j \in 0 .. (Len(instance_matrix) - 1) |-> 0]
  /\ legal_actions = [a \in 0 .. Len(instance_matrix) |-> a < Len(instance_matrix)]
  /\ env_done = FALSE
  /\ truncated = FALSE
  /\ irregular = 0
  /\ people_assignments = << >>
  /\ consecutive_no_ops = 0
  /\ last_action_time = 0
  /\ pc = "call"
  /\ action = -1
  /\ iteration_count = 0
  /\ schedule = << >>
  /\ completed_ops = [j \in 0 .. (Len(instance_matrix) - 1) |-> {}]
  /\ episode = 1
  /\ dec = NoDecision
  /\ committed_until = [i \in 1 .. Len(controller) |-> 0]
  /\ noop_run = 0
  /\ noop_run_near = 0
  /\ noop_limit = 0
  /\ dispatched = 0
  /\ first_action = -1

InitSetup(configs, policies, fewer) == EpisodeSetup(configs, policies, fewer) /\ StreamIdle

\* an episode of ControllerJSSAgent.run_episode
InitFor(configs, policies) == InitSetup(configs, policies, FALSE)

InitWith(configs) == InitFor(configs, { "controller" })

Init == InitWith(Configurations)

\* the latest end_time of the table, 0 for the empty table
LatestEnd(pa) ==
  IF pa = << >> THEN 0
  ELSE CHOOSE e \in { pa[i].end_time : i \in 1 .. Len(pa) } :
         \A i \in 1 .. Len(pa) : pa[i].end_time <= e

PersonIdx(p) == CHOOSE i \in 1 .. Len(controller) : controller[i][1] = p

\* what the decision saw: the clock, the table before and after expiry, the counter
\* after the staleness reset, the previous last_action_time
Seen(kind, t, pa0, cnt0) ==
  [kind |-> kind, clock |-> t, before |-> people_assignments, table |-> pa0,
   no_ops |-> cnt0, last |-> last_action_time, chosen |-> NoChoice, until |-> 0]

\* __call__ raised
Raised(t, pa0, cnt0) ==
  /\ pc' = "raised"
  /\ people_assignments' = pa0
  /\ consecutive_no_ops' = cnt0
  /\ dec' = Seen("raise", t, pa0, cnt0)
  /\ UNCHANGED << action, committed_until, noop_run, noop_run_near, noop_limit,
                  dispatched, first_action >>

\* __call__ returned r
Returned(r, t, pa0, cnt0, near) ==
  /\ pc' = "step"
  /\ action' = r.action
  /\ people_assignments' = r.assignments
  /\ consecutive_no_ops' = r.no_ops
  /\ IF r.kind \in SelectingKinds
     THEN /\ dec' = [Seen(r.kind, t, pa0, cnt0) EXCEPT
                       !.chosen = r.chosen,
                       !.until = committed_until[PersonIdx(r.chosen.person_id)]]
          /\ committed_until' =
               [committed_until EXCEPT ![PersonIdx(r.chosen.person_id)] =
                                         Max(@, r.chosen.end_time)]
     ELSE /\ dec' = Seen(r.kind, t, pa0, cnt0)
          /\ UNCHANGED committed_until
  /\ noop_run' = IF r.action = NoOp /\ all_legal_jobs # {} THEN noop_run + 1 ELSE 0
  /\ noop_run_near' =
       IF r.action = NoOp /\ all_legal_jobs # {}
         THEN (IF near THEN noop_run_near ELSE 0) + 1 ELSE 0
  /\ noop_limit' =
       IF r.action = NoOp /\ all_legal_jobs # {}
         THEN (IF noop_run = 0 THEN LatestEnd(pa0) - t ELSE noop_limit)
         ELSE 0
  /\ first_action' = IF episode = 1 /\ iteration_count = 0 THEN r.action
                     ELSE first_action
  /\ UNCHANGED dispatched

CallAt(t, pa0, cnt0) ==
  IF RaisesConfigurationError
    THEN Raised(t, pa0, cnt0)
    ELSE Returned(Decide(pa0, cnt0, t), t, pa0, cnt0,
                  dec.kind = "none" \/ t <= dec.clock + 1)

\* len(legal_actions) != expected_action_size
MaskMalformed == Cardinality(DOMAIN legal_actions) # jobs + 1

\* variant: the length is checked after the cleanup, the staleness reset and the
\* update of last_action_time
BadMaskReturnAfterBookkeeping(pa, cnt, last, t) ==
  [action |-> jobs, assignments |-> _cleanup_expired_assignments(pa, t),
   no_ops |-> StalenessReset(cnt, last, t), last |-> t]

\* lines 132-134: the early return, and the agent state it leaves
BadMaskReturn(pa, cnt, last, t) ==
  [action |-> jobs, assignments |-> pa, no_ops |-> cnt, last |-> last]

\* __call__ returned on a mask of the wrong length
ReturnedOnBadMask(r) ==
  /\ pc' = "step"
  /\ action' = r.action
  /\ people_assignments' = r.assignments
  /\ consecutive_no_ops' = r.no_ops
  /\ last_action_time' = r.last
  /\ dec' = [NoDecision EXCEPT !.kind = "bad_mask", !.clock = current_time_step,
                               !.before = people_assignments,
                               !.table = people_assignments,
                               !.no_ops = consecutive_no_ops,
                               !.last = last_action_time]
  /\ noop_run' = 0
  /\ noop_run_near' = 0
  /\ noop_limit' = 0
  /\ UNCHANGED << committed_until, dispatched, first_action >>

\* One loop iteration up to the return of self.__call__(self.env, obs)
Call ==
  /\ pc = "call"
  /\ iteration_count' = iteration_count + 1
  /\ IF MaskMalformed
       THEN ReturnedOnBadMask(BadMaskReturn(people_assignments, consecutive_no_ops,
                                            last_action_time, current_time_step))
       ELSE /\ last_action_time' = current_time_step
            /\ CallAt(current_time_step,
                      _cleanup_expired_assignments(people_assignments, current_time_step),
                      StalenessReset(consecutive_no_ops, last_action_time,
                                     current_time_step))
  /\ UNCHANGED << config_vars, stream_vars, comparison_vars, env_vars, schedule, completed_ops, episode >>

\* lines 434-469 and 481-498: the record of a job action
Recorded(a, asg) ==
  /\ schedule' = RecordTask(schedule, completed_ops[a], a, asg)
  /\ completed_ops' = [completed_ops EXCEPT ![a] = @ \cup {asg.current_op}]

StepWith(a) ==
  /\ \E d \in 0 .. MaxAdv, mask \in Masks : EnvStep(a, d, mask)
  /\ IF a < jobs
       THEN /\ Recorded(a, ActionAssignment(people_assignments, a, current_time_step))
            /\ dispatched' = dispatched + 1
       ELSE UNCHANGED << schedule, completed_ops, dispatched >>

\* variant: the loop runs until the environment reports done
LoopWhileNotDone(done, count) == ~done

\* line 416: while not done and iteration_count < max_iterations
LoopContinues(done, count) == ~done /\ count < max_iterations

\* lines 518-519 and the loop test
StepEnd ==
  /\ pc' = IF LoopContinues(env_done' \/ truncated', iteration_count)
           THEN "call" ELSE "finished"
  /\ dec' = [NoDecision EXCEPT !.kind = "stepped", !.clock = dec.clock]
  /\ action' = -1
  /\ UNCHANGED << config_vars, stream_vars, comparison_vars, agent_vars, iteration_count, episode,
                  committed_until, noop_run, noop_run_near, noop_limit, first_action >>

\* The rest of the iteration: validation, the assignment record, env.step, the
\* schedule record, and the loop test
Step ==
  /\ pc = "step"
  /\ StepWith(ValidatedAction(action))
  /\ StepEnd

\* the rest of an iteration whose env.step returns a mask of the wrong length
BadMaskStepWith(a) ==
  /\ \E d \in 0 .. MaxAdv, bad \in BadMasks : EnvStepPublishing(a, d, NothingLegal, bad)
  /\ IF a < jobs
       THEN /\ Recorded(a, ActionAssignment(people_assignments, a, current_time_step))
            /\ dispatched' = dispatched + 1
       ELSE UNCHANGED << schedule, completed_ops, dispatched >>

BadMaskStep ==
  /\ pc = "step"
  /\ BadMaskStepWith(ValidatedAction(action))
  /\ StepEnd

\* an environment that makes no progress on the no-op: nothing changes but the
\* mask, which offers no job, and neither done nor truncated is reported
EnvStall(mask) ==
  /\ \A j \in JobIds : ~mask[j]
  /\ legal_actions' = mask
  /\ env_done' = FALSE
  /\ truncated' = FALSE
  /\ UNCHANGED << current_time_step, todo_time_step_job, time_until_available_machine,
                  time_until_finish_current_op_jobs, irregular >>

\* the rest of an iteration whose no-op the environment answers without progress
StallStep ==
  /\ pc = "step"
  /\ ValidatedAction(action) = NoOp
  /\ \E mask \in Masks : EnvStall(mask)
  /\ UNCHANGED << schedule, completed_ops, dispatched >>
  /\ StepEnd

\* run_episode is called again on the same agent instance
NewEpisode ==
  /\ pc = "finished"
  /\ episode < MaxEpisodes
  /\ EnvReset
  /\ pc' = "call"
  /\ episode' = episode + 1
  /\ iteration_count' = 0
  /\ schedule' = << >>
  /\ completed_ops' = [j \in JobIds |-> {}]
  /\ dec' = NoDecision
  /\ committed_until' = [i \in 1 .. Len(controller) |-> 0]
  /\ noop_run' = 0
  /\ noop_run_near' = 0
  /\ noop_limit' = 0
  /\ dispatched' = 0
  /\ UNCHANGED << config_vars, stream_vars, comparison_vars, agent_vars, action, first_action >>

Next == Call \/ Step

Spec == Init /\ [][Next]_vars

\* the same agent instance runs MaxEpisodes episodes, as run_agent_evaluation does
InitRepeat == InitWith(RepeatConfigurations)

NextRepeat == Call \/ Step \/ NewEpisode

SpecRepeat == InitRepeat /\ [][NextRepeat]_vars

\* one episode against an environment that may publish masks of a wrong length
InitMask == InitWith(RepeatConfigurations)

NextMask == Call \/ Step \/ BadMaskStep

SpecMask == InitMask /\ [][NextMask]_vars

\* one episode against an environment that may stop making progress
InitStall == InitWith(RepeatConfigurations)

NextStall == Call \/ Step \/ StallStep

\* a step of the loop of run_episode as the position sees it: __call__ returns or
\* raises, env.step returns.  Both always can, so a step of NextStall is enabled
\* exactly where this is, and every step of NextStall is one of these.
LoopAdvances ==
  \/ pc = "call" /\ pc' \in { "step", "raised" }
  \/ pc = "step" /\ pc' \in { "call", "finished" }

\* run_episode is sequential code: a loop that can advance eventually does
SpecStall == InitStall /\ [][NextStall]_vars /\ WF_pc(LoopAdvances)

----------------------------------------------------------------------------
(* The end-to-end example: the 2 x 2 instance with two people qualified for *)
(* both machines, on a simulator that never idles: the clock stops at the   *)
(* first instant a job is ready or everything is done, and a ready job is   *)
(* offered whenever there is one.                                           *)

ExampleConfigurations == { <<InstExample, CtrlTwo>> }

\* the running operations d time units after act is applied
MachinesAfter(act, d) ==
  [m \in MachineIds |->
     Max(0, (IF act < jobs /\ m = MachineOf(act, todo_time_step_job[act])
               THEN ProcTime(act, todo_time_step_job[act])
             ELSE time_until_available_machine[m]) - d)]

RunningAfter(act, d) ==
  [j \in JobIds |->
     Max(0, (IF act < jobs /\ j = act THEN ProcTime(act, todo_time_step_job[act])
             ELSE time_until_finish_current_op_jobs[j]) - d)]

TodoAfter(act, d) ==
  [j \in JobIds |->
     IF /\ time_until_finish_current_op_jobs[j] > 0 \/ (act < jobs /\ j = act)
        /\ RunningAfter(act, d)[j] = 0
       THEN todo_time_step_job[j] + 1
     ELSE todo_time_step_job[j]]

ReadyAfter(act, d) ==
  { j \in JobIds : Ready(j, TodoAfter(act, d), RunningAfter(act, d), MachinesAfter(act, d)) }

DoneAfter(act, d) == \A j \in JobIds : TodoAfter(act, d)[j] >= machines

\* an instant the simulator stops at on its own
IsEvent(act, d) == ReadyAfter(act, d) # {} \/ DoneAfter(act, d)

\* the step of a simulator that never idles: no event is skipped, and at an
\* instant with ready jobs one of them at least is legal and no other job is
NeverIdles(act, d, mask) ==
  /\ \A e \in 0 .. (d - 1) : (act = NoOp /\ e = 0) \/ ~IsEvent(act, e)
  /\ \A j \in JobIds : mask[j] => j \in ReadyAfter(act, d)
  /\ ReadyAfter(act, d) # {} /\ ~DoneAfter(act, d) => \E j \in JobIds : mask[j]

ExampleStepWith(a) ==
  /\ \E d \in 0 .. MaxAdv, mask \in Masks : NeverIdles(a, d, mask) /\ EnvStep(a, d, mask)
  /\ IF a < jobs
       THEN /\ Recorded(a, ActionAssignment(people_assignments, a, current_time_step))
            /\ dispatched' = dispatched + 1
       ELSE UNCHANGED << schedule, completed_ops, dispatched >>

\* the rest of an iteration on the simulator that never idles
ExampleStep ==
  /\ pc = "step"
  /\ ExampleStepWith(ValidatedAction(action))
  /\ StepEnd

\* The shortest-processing-time dispatching rule on the same simulator: at every
\* instant with ready jobs it starts the one whose operation is shortest (the
\* lowest index among equals), else the clock moves to the next completion.
ShortestReady(ready, todo) ==
  CHOOSE j \in ready :
    \A k \in ready : \/ ProcTime(j, todo[j]) < ProcTime(k, todo[k])
                     \/ ProcTime(j, todo[j]) = ProcTime(k, todo[k]) /\ j <= k

Latest(S) == CHOOSE x \in S : \A y \in S : x >= y

RECURSIVE SptRun(_, _, _, _)
SptRun(t, todo, job_free, machine_free) ==
  LET left == { j \in JobIds : todo[j] < machines }
      ready == { j \in left : /\ job_free[j] <= t
                              /\ machine_free[MachineOf(j, todo[j])] <= t }
      j == ShortestReady(ready, todo)
      ends == t + ProcTime(j, todo[j])
      later == { job_free[k] : k \in JobIds } \cap ((t + 1) .. Latest({ job_free[k] : k \in JobIds }))
  IN IF left = {} THEN Latest({ job_free[k] : k \in JobIds })
     ELSE IF ready # {}
       THEN SptRun(t, [todo EXCEPT ![j] = @ + 1], [job_free EXCEPT ![j] = ends],
                   [machine_free EXCEPT ![MachineOf(j, todo[j])] = ends])
     ELSE SptRun(EarliestStart(later), todo, job_free, machine_free)

\* the makespan of the episode the SPT rule drives on the instance
SptMakespan ==
  SptRun(0, [j \in JobIds |-> 0], [j \in JobIds |-> 0], [m \in MachineIds |-> 0])

InitExample == InitWith(ExampleConfigurations)

NextExample == Call \/ ExampleStep

SpecExample == InitExample /\ [][NextExample]_vars

\* the rest of an iteration on a simulator whose masks offer ready jobs only
RegularStep ==
  /\ Step
  /\ irregular' = irregular

\* episodes of the configurations that exercise the selection cascade
InitTiers == InitWith(TierConfigurations)

NextTiers == Call \/ RegularStep

SpecTiers == InitTiers /\ [][NextTiers]_vars

\* episodes of an agent told to use fewer people than its controller file lists
SubsetConfigurations == { <<InstExample, CtrlTwo>>, <<InstTier, CtrlLead>> }

InitSubset == InitSetup(SubsetConfigurations, { "controller" }, TRUE)

SpecSubset == InitSubset /\ [][NextTiers]_vars

\* the rest of an iteration on a simulator whose clock moves one unit at most
UnitStep ==
  /\ Step
  /\ current_time_step' <= current_time_step + 1

\* episodes in which the mask may offer a job whose machine is still busy
InitBand == InitWith(BandConfigurations)

NextBand == Call \/ UnitStep

SpecBand == InitBand /\ [][NextBand]_vars

----------------------------------------------------------------------------
(* HybridPriorityScoringAgent and AdaptiveLookAheadAgent                    *)
(* (src/comparison_framework/agents.py), driven by                          *)
(* JSSEnvironmentManager.run_episode.  The composite score of the hybrid    *)
(* agent is carried as 100 * HybridScale times the float score, the score   *)
(* of the look-ahead agent as LookAheadScale times the float score.  A      *)
(* division by max_time_op = 0 raises ZeroDivisionError on Python numbers   *)
(* and yields nan on numpy scalars: which of the two the environment hands  *)
(* over is its choice.                                                      *)

InstTwin == << << <<0, 2>>, <<1, 1>> >>, << <<0, 2>>, <<1, 1>> >> >>
InstZero == << << <<0, 0>>, <<1, 0>> >>, << <<1, 0>>, <<0, 0>> >> >>

AgentConfigurations ==
  { <<InstExample, CtrlOne>>, <<InstTwin, CtrlOne>>, <<InstZero, CtrlOne>> }

NumberKinds == { "python", "numpy" }

\* legal_job_indices = [i for i in range(env.jobs) if legal_actions[i]]
legal_job_indices == { i \in JobIds : legal_actions[i] }

\* np.sum(legal_actions[:-1]) == 0 and legal_actions[-1]
OnlyNoOpLegal == legal_job_indices = {} /\ legal_actions[jobs]

\* _calculate_progress_ratio, against the 0.3 and 0.7 of _get_dynamic_weights
Stage(completed, total_ops) ==
  IF 10 * completed < 3 * total_ops THEN "early"
  ELSE IF 10 * completed < 7 * total_ops THEN "middle"
  ELSE "late"

progress_stage == Stage(SumTodo(jobs), jobs * machines)

\* spt, work_remaining, critical_path, machine_util, bottleneck, flow_continuity,
\* in hundredths
_get_dynamic_weights(stage) ==
  CASE stage = "early"  -> << 15, 25, 25, 15, 10, 10 >>
    [] stage = "middle" -> << 20, 20, 15, 20, 15, 10 >>
    [] OTHER            -> << 30, 10, 15, 25, 10, 10 >>

HybridScale == max_time_op * machines * jobs

\* env.needed_machine_jobs[job]: the machine of the job's next operation
needed_machine_jobs(j) ==
  IF todo_time_step_job[j] < machines THEN MachineOf(j, todo_time_step_job[j]) ELSE -1

_shortest_processing_time_score(proc_time, max_time) ==
  machines * jobs * (max_time - proc_time)

_work_remaining_score(j) == jobs * SumProc(j, todo_time_step_job[j], machines)

_critical_path_score(j) == max_time_op * jobs * (machines - todo_time_step_job[j])

_machine_utilization_score(machine_id) ==
  IF max_time_op > 0
    THEN machines * jobs * (max_time_op - time_until_available_machine[machine_id])
    ELSE HybridScale

_bottleneck_machine_score(j, current_op) ==
  max_time_op * machines
    * Cardinality({ k \in JobIds : legal_actions[k]
                                   /\ needed_machine_jobs(k) = MachineOf(j, current_op) })

_flow_continuity_score(j, current_op) ==
  IF current_op >= machines - 1 THEN HybridScale
  ELSE IF time_until_available_machine[MachineOf(j, current_op + 1)]
            <= ProcTime(j, current_op)
    THEN HybridScale
  ELSE machines * jobs
         * Max(0, max_time_op
                  - (time_until_available_machine[MachineOf(j, current_op + 1)]
                     - ProcTime(j, current_op)))

HybridTerms(j, current_op) ==
  << _shortest_processing_time_score(ProcTime(j, current_op), max_time_op),
     _work_remaining_score(j),
     _critical_path_score(j),
     _machine_utilization_score(needed_machine_jobs(j)),
     _bottleneck_machine_score(j, current_op),
     _flow_continuity_score(j, current_op) >>

_calculate_job_score(j, stage) ==
  LET w == _get_dynamic_weights(stage)
      x == HybridTerms(j, todo_time_step_job[j])
  IN w[1] * x[1] + w[2] * x[2] + w[3] * x[3] + w[4] * x[4] + w[5] * x[5] + w[6] * x[6]

\* job_scores, keyed by the legal jobs
hybrid_job_scores(stage) == [j \in legal_job_indices |-> _calculate_job_score(j, stage)]

\* variant: the last of the best jobs wins a tie
best_job_last(scores) ==
  CHOOSE j \in DOMAIN scores :
    \A k \in DOMAIN scores : scores[j] > scores[k] \/ (scores[j] = scores[k] /\ j >= k)

\* best_job = max(job_scores.keys(), key=lambda x: job_scores[x])
best_job(scores) ==
  CHOOSE j \in DOMAIN scores :
    \A k \in DOMAIN scores : scores[j] > scores[k] \/ (scores[j] = scores[k] /\ j <= k)

\* max() over keys whose scores are all nan returns the first key
FirstKey(S) == CHOOSE j \in S : \A k \in S : j <= k

\* variant: the no-op is considered whether or not the mask allows it
ConsidersNoOpUnchecked(stage, coin) == stage = "early" /\ coin

\* legal_actions[env.jobs] and progress_ratio < 0.3 and np.random.random() < 0.05
ConsidersNoOp(stage, coin) == legal_actions[jobs] /\ stage = "early" /\ coin

\* env.instance_matrix[job_idx][current_op] with current_op = machines
IndexFails(S) == \E j \in S : todo_time_step_job[j] >= machines

AgentResult(kind, a) == [kind |-> kind, action |-> a]

\* proc_time / max_time, remaining_work / max_possible_work with a zero divisor
HybridDivisionRaises(numbers) == max_time_op = 0 /\ numbers = "python"

\* HybridPriorityScoringAgent.__call__
HybridDecision(coin, numbers) ==
  IF OnlyNoOpLegal THEN AgentResult("only_noop", jobs)
  ELSE IF legal_job_indices = {} THEN AgentResult("nothing_legal", NoOpOrZero)
  ELSE IF IndexFails(legal_job_indices) THEN AgentResult("raised", -1)
  ELSE IF HybridDivisionRaises(numbers) THEN AgentResult("raised", -1)
  ELSE IF ConsidersNoOp(progress_stage, coin) THEN AgentResult("random_noop", jobs)
  ELSE IF max_time_op = 0 THEN AgentResult("best", FirstKey(legal_job_indices))
  ELSE AgentResult("best", best_job(hybrid_job_scores(progress_stage)))

LookAheadScale == 20 * max_time_op

\* _evaluate_action_with_lookahead
_evaluate_action_with_lookahead(a) ==
  LET current_op == todo_time_step_job[a]
      proc_time == ProcTime(a, current_op)
      immediate_score ==
        20 * (max_time_op - proc_time)
        + (IF time_until_available_machine[needed_machine_jobs(a)] = 0
             THEN 10 * max_time_op ELSE 0)
      future_score ==
        IF current_op < machines - 1
          THEN (IF time_until_available_machine[MachineOf(a, current_op + 1)] <= proc_time
                  THEN 6 * max_time_op ELSE 0)
               + 10 * (max_time_op - ProcTime(a, current_op + 1))
          ELSE 0
  IN immediate_score + future_score

\* (env.max_time_op - proc_time) / env.max_time_op with a zero divisor
LookAheadDivisionRaises(numbers) == max_time_op = 0 /\ numbers = "python"

\* the loop of lines 235-244: the first job with the strictly largest score
best_action(S) ==
  CHOOSE a \in S :
    \A k \in S : LET sa == _evaluate_action_with_lookahead(a)
                     sk == _evaluate_action_with_lookahead(k)
                 IN sa > sk \/ (sa = sk /\ a <= k)

\* AdaptiveLookAheadAgent.__call__
LookAheadDecision(numbers) ==
  IF legal_job_indices = {} THEN AgentResult("nothing_legal", NoOpOrZero)
  ELSE IF Cardinality(legal_job_indices) = 1
    THEN AgentResult("single", FirstKey(legal_job_indices))
  ELSE IF IndexFails(legal_job_indices) THEN AgentResult("raised", -1)
  ELSE IF LookAheadDivisionRaises(numbers) THEN AgentResult("raised", -1)
  ELSE IF max_time_op = 0 THEN AgentResult("best", FirstKey(legal_job_indices))
  ELSE AgentResult("best", best_action(legal_job_indices))

\* the fields of the environment the agents read
EnvSnapshot ==
  [todo |-> todo_time_step_job, tua |-> time_until_available_machine,
   clock |-> current_time_step, mask |-> legal_actions]

\* the scoring of the hybrid agent reads the environment and writes nothing
HybridEnvAfter(r) == EnvSnapshot

\* variant: the evaluation simulates the best action on the environment and does
\* not restore it
LookAheadEnvAfterSimulation(r) ==
  IF r.kind = "best"
    THEN [EnvSnapshot EXCEPT !.todo = [@ EXCEPT ![r.action] = @ + 1],
                             !.clock = @ + ProcTime(r.action, todo_time_step_job[r.action])]
    ELSE EnvSnapshot

\* lines 226-279 read env.jobs, env.machines, env.todo_time_step_job,
\* env.instance_matrix, env.needed_machine_jobs, env.max_time_op and
\* env.time_until_available_machine, and assign to locals only
LookAheadEnvAfter(r) == EnvSnapshot

\* the agent returned r, or raised (run_episode does not catch), leaving the
\* environment as e
AgentReturned(r, e) ==
  /\ pc' = IF r.kind = "raised" THEN "raised" ELSE "step"
  /\ action' = r.action
  /\ dec' = [NoDecision EXCEPT !.kind = r.kind, !.clock = current_time_step]
  /\ todo_time_step_job' = e.todo
  /\ time_until_available_machine' = e.tua
  /\ current_time_step' = e.clock
  /\ legal_actions' = e.mask
  /\ UNCHANGED << config_vars, stream_vars, comparison_vars, time_until_finish_current_op_jobs, env_done, truncated,
                  irregular, agent_vars, iteration_count, schedule,
                  completed_ops, episode, committed_until, noop_run, noop_run_near,
                  noop_limit, dispatched, first_action >>

HybridCall ==
  /\ pc = "call"
  /\ policy = "hybrid"
  /\ \E coin \in BOOLEAN, numbers \in NumberKinds :
       AgentReturned(HybridDecision(coin, numbers),
                     HybridEnvAfter(HybridDecision(coin, numbers)))

LookAheadCall ==
  /\ pc = "call"
  /\ policy = "lookahead"
  /\ \E numbers \in NumberKinds :
       AgentReturned(LookAheadDecision(numbers),
                     LookAheadEnvAfter(LookAheadDecision(numbers)))

\* the actions whose effect the environment's contract describes
StepDefined(a) ==
  a = jobs \/ (a \in JobIds /\ legal_actions[a] /\ todo_time_step_job[a] < machines)

\* JSSEnvironmentManager.run_episode: env.step(action), then the loop test.  A
\* step on an action the contract does not describe is not followed further.
AgentStep ==
  /\ pc = "step"
  /\ policy \in { "hybrid", "lookahead", "random", "stream_lookahead" }
  /\ IF StepDefined(action)
       THEN /\ \E d \in 0 .. MaxAdv, mask \in Masks : EnvStep(action, d, mask)
            /\ pc' = IF env_done' \/ truncated' THEN "finished" ELSE "call"
       ELSE /\ pc' = "unspecified"
            /\ UNCHANGED env_vars
  /\ dec' = [NoDecision EXCEPT !.kind = "stepped", !.clock = dec.clock]
  /\ action' = -1
  /\ UNCHANGED << config_vars, stream_vars, comparison_vars, agent_vars, iteration_count, schedule, completed_ops,
                  episode, committed_until, noop_run, noop_run_near, noop_limit,
                  dispatched, first_action >>

InitAgents == InitFor(AgentConfigurations, { "hybrid", "lookahead" })

NextAgents == HybridCall \/ LookAheadCall \/ AgentStep

SpecAgents == InitAgents /\ [][NextAgents]_vars

----------------------------------------------------------------------------
(* StreamAdaptiveLookAheadAgent (stream_agents.py).  Its evaluation of a    *)
(* candidate calls env.step on the environment of the episode.  Whether the *)
(* environment has _get_state and _set_state, and whether its step returns  *)
(* four or five values, is a choice of the run; a restored environment is   *)
(* taken to be exactly the saved one.                                       *)

\* _simple_action_heuristic raises IndexError: the job has no operation left to read
HeuristicIndexFails(a) == todo_time_step_job'[a] >= OpsOf(a)

\* _simple_action_heuristic(env, action) on the stepped environment, times max_time_op
_simple_action_heuristic(a) == 0 - ProcTime(a, todo_time_step_job'[a])

\* the state is saved, and restored after the step: both hooks exist and the
\* four-name unpacking of env.step(action) did not raise
StateRestored == lookahead.hooks /\ lookahead.arity = 4

\* lines 240-251: the observation format, the candidates, the two early returns
StreamLookAheadCall ==
  /\ pc = "call"
  /\ policy = "stream_lookahead"
  /\ lookahead' = [lookahead EXCEPT
                     !.pending = IF Cardinality(legal_job_indices) > 1
                                   THEN legal_job_indices ELSE {},
                     !.candidates = legal_job_indices,
                     !.scores = << >>,
                     !.todo = todo_time_step_job,
                     !.clock = current_time_step]
  /\ IF legal_job_indices = {}
       THEN /\ pc' = "step"
            /\ action' = jobs
            /\ dec' = [NoDecision EXCEPT !.kind = "nothing_legal", !.clock = current_time_step]
     ELSE IF Cardinality(legal_job_indices) = 1
       THEN /\ pc' = "step"
            /\ action' = FirstKey(legal_job_indices)
            /\ dec' = [NoDecision EXCEPT !.kind = "single", !.clock = current_time_step]
     ELSE /\ pc' = "evaluating"
          /\ action' = -1
          /\ dec' = [NoDecision EXCEPT !.kind = "evaluating", !.clock = current_time_step]
  /\ UNCHANGED << config_vars, comparison_vars, env_vars, agent_vars, iteration_count,
                  schedule, completed_ops, episode, committed_until, noop_run,
                  noop_run_near, noop_limit, dispatched, first_action, connections,
                  sessions, lock, tasks, service, framework, events >>

\* one pass of the loop of lines 257-261: _evaluate_action_with_lookahead on the
\* next candidate.  The score of a completed try block depends on the reward of
\* the environment and is left open (0 here, any candidate may win); the score
\* of the except branch is the heuristic.
StreamLookAheadEvaluate ==
  /\ pc = "evaluating"
  /\ lookahead.pending # {}
  /\ LET a == FirstKey(lookahead.pending)
     IN IF StateRestored
          THEN /\ UNCHANGED env_vars
               /\ pc' = pc
               /\ lookahead' = [lookahead EXCEPT !.pending = @ \ {a}]
        ELSE IF ~StepDefined(a)
          THEN /\ UNCHANGED env_vars
               /\ pc' = "unspecified"
               /\ lookahead' = [lookahead EXCEPT !.pending = @ \ {a}]
        ELSE /\ \E d \in 0 .. MaxAdv, mask \in Masks : EnvStep(a, d, mask)
             /\ IF lookahead.arity = 5 /\ HeuristicIndexFails(a)
                  THEN /\ pc' = "raised"
                       /\ lookahead' = [lookahead EXCEPT !.pending = @ \ {a}]
                  ELSE /\ pc' = pc
                       /\ lookahead' =
                            [lookahead EXCEPT
                               !.pending = @ \ {a},
                               !.scores = IF lookahead.arity = 5
                                            THEN @ \o << <<a, _simple_action_heuristic(a)>> >>
                                            ELSE @]
  /\ UNCHANGED << config_vars, comparison_vars, agent_vars, action, dec, iteration_count,
                  schedule, completed_ops, episode, committed_until, noop_run,
                  noop_run_near, noop_limit, dispatched, first_action, connections,
                  sessions, lock, tasks, service, framework, events >>

\* the first candidate with the strictly largest of the recorded scores
BestScored(scores) ==
  scores[CHOOSE i \in 1 .. Len(scores) :
           \A k \in 1 .. Len(scores) :
             scores[i][2] > scores[k][2] \/ (scores[i][2] = scores[k][2] /\ i <= k)][1]

\* line 263: return best_action
StreamLookAheadReturn ==
  /\ pc = "evaluating"
  /\ lookahead.pending = {}
  /\ pc' = "step"
  /\ IF lookahead.scores # << >>
       THEN action' = BestScored(lookahead.scores)
       ELSE action' \in lookahead.candidates
  /\ dec' = [NoDecision EXCEPT !.kind = "best", !.clock = dec.clock]
  /\ UNCHANGED << config_vars, comparison_vars, env_vars, agent_vars, lookahead,
                  iteration_count, schedule, completed_ops, episode, committed_until,
                  noop_run, noop_run_near, noop_limit, dispatched, first_action,
                  connections, sessions, lock, tasks, service, framework, events >>

LookAheadConfigurations == { <<InstExample, CtrlOne>>, <<InstTwin, CtrlOne>> }

InitLookAhead ==
  /\ EpisodeSetup(LookAheadConfigurations, { "stream_lookahead" }, FALSE)
  /\ \E h \in BOOLEAN, n \in { 4, 5 } :
       lookahead = [pending |-> {}, candidates |-> {}, scores |-> << >>, hooks |-> h,
                    arity |-> n, todo |-> << >>, clock |-> 0]
  /\ ManagerIdle
  /\ ServiceIdle
  /\ FrameworkIdle

NextLookAhead ==
  StreamLookAheadCall \/ StreamLookAheadEvaluate \/ StreamLookAheadReturn \/ AgentStep

SpecLookAhead == InitLookAhead /\ [][NextLookAhead]_vars

----------------------------------------------------------------------------
(* StreamManager (stream_manager.py): connections, sessions and one         *)
(* asyncio.Lock.  Coroutines run one at a time and change hands only at an  *)
(* await: a step of a coroutine is the code from one await to the next.     *)
(* asyncio.Lock has no owner and is not re-entrant: acquire() waits while   *)
(* the lock is held, whoever holds it.  A websocket whose socket_ok is      *)
(* FALSE raises on send_text.                                               *)

MaxClients == 2
MaxSessions == 1
MaxTasks == 2

Clients == 1 .. MaxClients
Sessions == 1 .. MaxSessions
TaskIds == 1 .. MaxTasks

\* everything of the episode loop, which the streaming layer leaves alone
episode_vars == << config_vars, comparison_vars, env_vars, agent_vars, pc, action,
                   iteration_count, schedule, completed_ops, episode, dec,
                   committed_until, noop_run, noop_run_near, noop_limit, dispatched,
                   first_action >>

\* what the manager's coroutines leave alone
beside_manager == << episode_vars, lookahead, service, framework, events >>

\* no episode in progress
NoEpisode == EpisodeSetup({ <<InstExample, CtrlOne>> }, { "none" }, FALSE)

NoConnection == [present |-> FALSE, used |-> FALSE, is_active |-> FALSE,
                 socket_ok |-> FALSE, subscribed |-> {}]

\* StreamSession.__init__
NewSession == [present |-> TRUE, status |-> "initializing", subscribers |-> {}]

IdleTask == [op |-> "none", fn |-> "none", pc |-> "idle", client |-> 0, session |-> 0,
             caller |-> "none", todo |-> {}, targets |-> {}, delivered |-> {}]

\* WebSocketConnection.send_message on connection k: nothing when inactive, the
\* message when the socket works, else is_active = False and the exception
SendRaises(k) == k.is_active /\ ~k.socket_ok

AfterSend(k) == IF SendRaises(k) THEN [k EXCEPT !.is_active = FALSE] ELSE k

\* connect_client: a fresh client id; the table entry under the lock, then the
\* welcome message
ConnectClient(c) ==
  /\ lock = 0
  /\ ~connections[c].used
  /\ \E ok \in BOOLEAN :
       connections' = [connections EXCEPT ![c] =
                         AfterSend([present |-> TRUE, used |-> TRUE, is_active |-> TRUE,
                                    socket_ok |-> ok, subscribed |-> {}])]
  /\ UNCHANGED << sessions, lock, tasks, beside_manager >>

\* subscribe_to_session: both sets under the lock, then the session state is sent
SubscribeToSession(c, s) ==
  /\ lock = 0
  /\ connections[c].present
  /\ sessions[s].present
  /\ connections' = [connections EXCEPT ![c] =
                       AfterSend([@ EXCEPT !.subscribed = @ \cup {s}])]
  /\ sessions' = [sessions EXCEPT ![s].subscribers = @ \cup {c}]
  /\ UNCHANGED << lock, tasks, beside_manager >>

\* the peer goes away: from now on send_text raises
SocketBreaks(c) ==
  /\ connections[c].present
  /\ connections[c].socket_ok
  /\ connections' = [connections EXCEPT ![c].socket_ok = FALSE]
  /\ UNCHANGED << sessions, lock, tasks, beside_manager >>

\* a coroutine is created for one call of the manager and reaches its
\* 'async with self._lock'
StartCall(t) ==
  /\ tasks[t].pc = "idle"
  /\ \E op \in { "disconnect", "send", "broadcast", "unsubscribe" },
        c \in Clients, s \in Sessions :
       tasks' = [tasks EXCEPT ![t] =
                   [IdleTask EXCEPT !.op = op, !.fn = op, !.pc = "lock",
                                    !.client = c, !.session = s]]
  /\ UNCHANGED << connections, sessions, lock, beside_manager >>

\* del self.connections[client_id]
Removed(conns, c) == [conns EXCEPT ![c] = [NoConnection EXCEPT !.used = TRUE]]

\* the body of unsubscribe_from_session under the lock
Unsubscribed(conns, sess, c, s) ==
  IF conns[c].present /\ sess[s].present
    THEN << [conns EXCEPT ![c].subscribed = @ \ {s}],
            [sess EXCEPT ![s].subscribers = @ \ {c}] >>
    ELSE << conns, sess >>

\* the coroutine calls unsubscribe_from_session for the first session of todo,
\* while it holds the lock itself
NestedUnsubscribe(task, caller, todo) ==
  [task EXCEPT !.fn = "unsubscribe", !.pc = "lock", !.caller = caller, !.todo = todo,
               !.session = CHOOSE s \in todo : \A x \in todo : s <= x]

\* unsubscribe_from_session got the lock: lines 146-154, then back in the caller
\* (disconnect_client lines 100-104, _cleanup_failed_connection lines 276-280)
UnsubscribeBody(t) ==
  LET k == tasks[t]
      u == Unsubscribed(connections, sessions, k.client, k.session)
      rest == k.todo \ {k.session}
  IN /\ sessions' = u[2]
     /\ lock' = 0
     /\ IF k.caller = "none"
          THEN /\ connections' = u[1]
               /\ tasks' = [tasks EXCEPT ![t].pc = "done"]
        ELSE IF rest # {}
          THEN /\ connections' = u[1]
               /\ tasks' = [tasks EXCEPT ![t] = NestedUnsubscribe(k, k.caller, rest)]
        ELSE /\ connections' = Removed(u[1], k.client)
             /\ tasks' = [tasks EXCEPT ![t].pc = "done"]

\* disconnect_client got the lock: lines 94-104
DisconnectBody(t) ==
  LET k == tasks[t]
      c == k.client
  IN /\ UNCHANGED sessions
     /\ IF ~connections[c].present
          THEN /\ tasks' = [tasks EXCEPT ![t].pc = "done"]
               /\ UNCHANGED << connections, lock >>
        ELSE IF connections[c].subscribed = {}
          THEN /\ connections' = Removed(connections, c)
               /\ tasks' = [tasks EXCEPT ![t].pc = "done"]
               /\ UNCHANGED lock
        ELSE /\ lock' = t
             /\ tasks' = [tasks EXCEPT ![t] =
                            NestedUnsubscribe(k, "disconnect", connections[c].subscribed)]
             /\ UNCHANGED connections

\* send_to_client got the lock: lines 256-266, and _cleanup_failed_connection
SendBody(t) ==
  LET k == tasks[t]
      c == k.client
  IN /\ UNCHANGED sessions
     /\ IF ~connections[c].present
          THEN /\ tasks' = [tasks EXCEPT ![t].pc = "done"]
               /\ UNCHANGED << connections, lock >>
        ELSE IF ~SendRaises(connections[c])
          THEN /\ tasks' = [tasks EXCEPT ![t].pc = "done",
                                         ![t].delivered =
                                           IF connections[c].is_active THEN {c} ELSE {}]
               /\ UNCHANGED << connections, lock >>
        ELSE IF connections[c].subscribed = {}
          THEN /\ connections' = Removed(connections, c)
               /\ tasks' = [tasks EXCEPT ![t].pc = "done"]
               /\ UNCHANGED lock
        ELSE /\ lock' = t
             /\ connections' = [connections EXCEPT ![c].is_active = FALSE]
             /\ tasks' = [tasks EXCEPT ![t] =
                            NestedUnsubscribe(k, "cleanup", connections[c].subscribed)]

\* broadcast_to_session_subscribers got the lock: lines 233-238, the copy
BroadcastBody(t) ==
  /\ tasks' = [tasks EXCEPT
                 ![t].pc = IF sessions[tasks[t].session].present THEN "sending" ELSE "done",
                 ![t].targets = sessions[tasks[t].session].subscribers,
                 ![t].todo = sessions[tasks[t].session].subscribers]
  /\ UNCHANGED << connections, sessions, lock >>

\* 'async with self._lock' lets the coroutine in: the lock is free
AcquireLock(t) ==
  /\ tasks[t].pc = "lock"
  /\ lock = 0
  /\ CASE tasks[t].fn = "unsubscribe" -> UnsubscribeBody(t)
       [] tasks[t].fn = "disconnect"  -> DisconnectBody(t)
       [] tasks[t].fn = "send"        -> SendBody(t)
       [] OTHER                       -> BroadcastBody(t)
  /\ UNCHANGED beside_manager

\* one pass of the loop of lines 241-244, over the copied set in any order: no
\* try around send_message, so its exception ends the broadcast
BroadcastSend(t) ==
  /\ tasks[t].pc = "sending"
  /\ IF tasks[t].todo = {}
       THEN /\ tasks' = [tasks EXCEPT ![t].pc = "done"]
            /\ UNCHANGED connections
       ELSE \E c \in tasks[t].todo :
              /\ connections' = [connections EXCEPT ![c] =
                                   IF @.present THEN AfterSend(@) ELSE @]
              /\ tasks' = [tasks EXCEPT
                             ![t].todo = @ \ {c},
                             ![t].pc = IF connections[c].present /\ SendRaises(connections[c])
                                         THEN "raised" ELSE @,
                             ![t].delivered =
                               IF /\ connections[c].present
                                  /\ connections[c].is_active
                                  /\ connections[c].socket_ok
                                 THEN @ \cup {c} ELSE @]
  /\ UNCHANGED << sessions, lock, beside_manager >>

\* StreamManager() with its sessions created, no client yet, no coroutine
InitManager ==
  /\ NoEpisode
  /\ LookAheadIdle
  /\ ServiceIdle
  /\ FrameworkIdle
  /\ connections = [c \in Clients |-> NoConnection]
  /\ sessions = [s \in Sessions |-> NewSession]
  /\ lock = 0
  /\ tasks = [t \in TaskIds |-> IdleTask]

NextManager ==
  \/ \E c \in Clients : ConnectClient(c)
  \/ \E c \in Clients, s \in Sessions : SubscribeToSession(c, s)
  \/ \E c \in Clients : SocketBreaks(c)
  \/ \E t \in TaskIds : StartCall(t)
  \/ \E t \in TaskIds : AcquireLock(t)
  \/ \E t \in TaskIds : BroadcastSend(t)

\* the event loop runs a coroutine that can run
SpecManager == InitManager /\ [][NextManager]_vars /\ WF_vars(NextManager)

----------------------------------------------------------------------------
(* JSSStreamingService (stream_service.py) and StreamJSSFramework           *)
(* (stream_framework.py): one streaming comparison as a background task.    *)
(* events is what stream_callback has received so far; the callback of the  *)
(* service turns an 'error' event into send_error and 'comparison_complete' *)
(* into send_comparison_complete and swallows every Exception.  A step is   *)
(* the code up to and including one awaited callback.                       *)

\* the session of the comparison
TheSession == CHOOSE s \in Sessions : TRUE

\* what the service and the framework leave alone
beside_stream == << episode_vars, lookahead, connections, lock, tasks >>

NoSession == [present |-> FALSE, status |-> "none", subscribers |-> {}]

\* StreamComparisonRequest: the requested agent types, whether a controller
\* name comes with them, the rule names, the random baseline
StreamRequests ==
  { [agents |-> a, controller_name |-> c, dispatching_rules |-> r,
     include_random_baseline |-> b] :
      a \in { << >>, << "hybrid" >>, << "controller" >>, << "controller", "hybrid" >> },
      c \in BOOLEAN,
      r \in { << >>, << "SPT" >> },
      b \in BOOLEAN }

\* the agent of this type cannot be created: 'Controller name required'
CreationRaises(agent_type, request) ==
  agent_type = "controller" /\ ~request.controller_name

\* update_session_status, send_error, send_comparison_complete: the status
\* written under the lock when the session exists
WithStatus(ss, s, status) ==
  IF ss[s].present THEN [ss EXCEPT ![s].status = status] ELSE ss

\* stream_callback of the service on one event
Callback(ss, e) ==
  IF e.type = "comparison_complete" THEN WithStatus(ss, TheSession, "completed")
  ELSE IF e.type = "error" THEN WithStatus(ss, TheSession, "failed")
  ELSE ss

RECURSIVE CallbackAll(_, _)
CallbackAll(ss, es) ==
  IF es = << >> THEN ss ELSE CallbackAll(Callback(ss, Head(es)), Tail(es))

\* await stream_callback(...) for the events es, in order
Emit(es) ==
  /\ events' = events \o es
  /\ sessions' = CallbackAll(sessions, es)

Event(type, key, name) == [type |-> type, key |-> key, name |-> name]

\* the task runs while it has not been cancelled
TaskRuns == service.pc \notin { "idle", "done", "cancelled" } /\ ~service.cancel

\* start_comparison_stream: the session and the background task
StartComparisonStream ==
  /\ service.pc = "idle"
  /\ \E request \in StreamRequests :
       service' = [pc |-> "created", request |-> request, todo |-> request.agents,
                   agents |-> << >>, cancel |-> FALSE]
  /\ sessions' = [sessions EXCEPT ![TheSession] = NewSession]
  /\ UNCHANGED << framework, events, beside_stream >>

\* _run_comparison_background: update_session_status(session_id, "running")
RunBackground ==
  /\ TaskRuns
  /\ service.pc = "created"
  /\ sessions' = WithStatus(sessions, TheSession, "running")
  /\ service' = [service EXCEPT !.pc = "test"]
  /\ UNCHANGED << framework, events, beside_stream >>

\* framework.test_environment(); send_error and return when it fails
TestEnvironment ==
  /\ TaskRuns
  /\ service.pc = "test"
  /\ \E env_test_success \in BOOLEAN :
       IF env_test_success
         THEN /\ service' = [service EXCEPT !.pc = "agents"]
              /\ UNCHANGED sessions
         ELSE /\ service' = [service EXCEPT !.pc = "done"]
              /\ sessions' = WithStatus(sessions, TheSession, "failed")
  /\ UNCHANGED << framework, events, beside_stream >>

\* for agent_type in request.agents: the agent, or send_error and the next type
CreateAgent ==
  /\ TaskRuns
  /\ service.pc = "agents"
  /\ service.todo # << >>
  /\ LET agent_type == Head(service.todo) IN
       IF CreationRaises(agent_type, service.request)
         THEN /\ service' = [service EXCEPT !.todo = Tail(@)]
              /\ sessions' = WithStatus(sessions, TheSession, "failed")
         ELSE /\ service' = [service EXCEPT !.todo = Tail(@),
                                            !.agents = Append(@, agent_type)]
              /\ UNCHANGED sessions
  /\ UNCHANGED << framework, events, beside_stream >>

\* all_methods of run_comprehensive_comparison_stream
all_methods(agents, rules, include_random) ==
  [i \in 1 .. Len(agents) |-> "agent"] \o [i \in 1 .. Len(rules) |-> "rule"]
    \o (IF include_random THEN << "random" >> ELSE << >>)

\* run_comprehensive_comparison_stream up to 'comparison_start'
RunComparison ==
  /\ TaskRuns
  /\ service.pc = "agents"
  /\ service.todo = << >>
  /\ LET ms == all_methods(service.agents, service.request.dispatching_rules,
                           service.request.include_random_baseline) IN
       framework' = [pc |-> "method", methods |-> ms, i |-> 1, total_methods |-> Len(ms),
                     completed_methods |-> 0, episode |-> 0]
  /\ service' = [service EXCEPT !.pc = "compare"]
  /\ Emit(<< Event("comparison_start", "none", 0) >>)
  /\ UNCHANGED beside_stream

\* the next of all_methods: 'method_start'
MethodStart ==
  /\ TaskRuns
  /\ framework.pc = "method"
  /\ framework.i <= framework.total_methods
  /\ framework' = [framework EXCEPT !.pc = "episode", !.episode = 0]
  /\ Emit(<< Event("method_start", "method_name", framework.i) >>)
  /\ UNCHANGED << service, beside_stream >>

\* variant: a method that raised is not counted
CompletedAfterErrorKept(completed_methods) == completed_methods

\* completed_methods after the 'error' event of the except branch
CompletedAfterError(completed_methods) == completed_methods + 1

\* the rule agent cannot be built: _load_rule catches ImportError only
RuleMayRaise == framework.methods[framework.i] = "rule" /\ framework.episode = 0

\* run_agent_evaluation_stream, next episode: 'episode_start'; or the method
\* raises outside the episode's try: 'error' with the method's name, the count,
\* and the next method
EpisodeStart ==
  /\ TaskRuns
  /\ framework.pc = "episode"
  /\ framework.episode < num_episodes
  /\ \E raises \in (IF RuleMayRaise THEN BOOLEAN ELSE { FALSE }) :
       IF raises
         THEN /\ framework' = [framework EXCEPT
                                 !.pc = "method", !.i = @ + 1,
                                 !.completed_methods = CompletedAfterError(@)]
              /\ Emit(<< Event("error", "method_name", framework.i) >>)
         ELSE /\ framework' = [framework EXCEPT !.pc = "run"]
              /\ Emit(<< Event("episode_start", "agent_name", framework.i) >>)
  /\ UNCHANGED << service, beside_stream >>

\* run_episode_stream: the 'step' events as 'episode_progress', then
\* 'episode_complete', or 'error' with the agent's name and break
EpisodeRun ==
  /\ TaskRuns
  /\ framework.pc = "run"
  /\ \E raises \in BOOLEAN, stepped \in BOOLEAN :
       LET progress == IF stepped \/ ~raises
                         THEN << Event("episode_progress", "agent_name", framework.i) >>
                         ELSE << >>
       IN IF raises
            THEN /\ framework' = [framework EXCEPT !.pc = "broken"]
                 /\ Emit(progress \o << Event("error", "agent_name", framework.i) >>)
            ELSE /\ framework' = [framework EXCEPT !.pc = "episode", !.episode = @ + 1]
                 /\ Emit(progress \o << Event("episode_complete", "agent_name", framework.i) >>)
  /\ UNCHANGED << service, beside_stream >>

\* the evaluation has returned: completed_methods += 1 and 'method_complete'
MethodComplete ==
  /\ TaskRuns
  /\ \/ framework.pc = "episode" /\ framework.episode >= num_episodes
     \/ framework.pc = "broken"
  /\ framework' = [framework EXCEPT !.pc = "method", !.i = @ + 1,
                                    !.completed_methods = @ + 1]
  /\ Emit(<< Event("method_complete", "method_name", framework.i) >>)
  /\ UNCHANGED << service, beside_stream >>

\* after the last method: 'comparison_complete' and return
ComparisonComplete ==
  /\ TaskRuns
  /\ framework.pc = "method"
  /\ framework.i > framework.total_methods
  /\ framework' = [framework EXCEPT !.pc = "returned"]
  /\ Emit(<< Event("comparison_complete", "none", 0) >>)
  /\ UNCHANGED << service, beside_stream >>

\* _run_comparison_background after the comparison:
\* update_session_status(session_id, "completed"), then the finally block
FinishBackground ==
  /\ TaskRuns
  /\ service.pc = "compare"
  /\ framework.pc = "returned"
  /\ sessions' = WithStatus(sessions, TheSession, "completed")
  /\ service' = [service EXCEPT !.pc = "done"]
  /\ UNCHANGED << framework, events, beside_stream >>

\* cancel_session while the session is in active_tasks: task.cancel() and
\* update_session_status(session_id, "cancelled")
CancelSession ==
  /\ TaskRuns
  /\ service' = [service EXCEPT !.cancel = TRUE]
  /\ sessions' = WithStatus(sessions, TheSession, "cancelled")
  /\ UNCHANGED << framework, events, beside_stream >>

\* CancelledError at the await the task is suspended in: no 'except Exception'
\* catches it, the finally block runs
TaskCancelled ==
  /\ service.pc \notin { "idle", "done", "cancelled" }
  /\ service.cancel
  /\ service' = [service EXCEPT !.pc = "cancelled"]
  /\ UNCHANGED << sessions, framework, events, beside_stream >>

InitStream ==
  /\ NoEpisode
  /\ LookAheadIdle
  /\ ServiceIdle
  /\ FrameworkIdle
  /\ connections = [c \in Clients |-> NoConnection]
  /\ sessions = [s \in Sessions |-> NoSession]
  /\ lock = 0
  /\ tasks = [t \in TaskIds |-> IdleTask]

NextStream ==
  \/ StartComparisonStream
  \/ RunBackground
  \/ TestEnvironment
  \/ CreateAgent
  \/ RunComparison
  \/ MethodStart
  \/ EpisodeStart
  \/ EpisodeRun
  \/ MethodComplete
  \/ ComparisonComplete
  \/ FinishBackground
  \/ CancelSession
  \/ TaskCancelled

SpecStream == InitStream /\ [][NextStream]_vars

----------------------------------------------------------------------------
(* The weights as the Python floats they are.  A float between 2^-8 and 4   *)
(* is carried exactly as a whole number of units of 2^-60, in four limbs of *)
(* 15 bits, most significant first; a literal k/100 is the nearest float,   *)
(* and + rounds the exact sum to the nearest float, ties to the even        *)
(* mantissa (53 bits).                                                      *)

Limb == 32768

\* the limbs after the carries have been passed upwards
Carry(l) ==
  LET l3 == l[3] + (l[4] \div Limb)
      l2 == l[2] + (l3 \div Limb)
  IN << l[1] + (l2 \div Limb), l2 % Limb, l3 % Limb, l[4] % Limb >>

\* the distance between neighbouring floats, in units, around a number whose top
\* limb is top: 2^(e - 52) / 2^-60 for 2^e <= x < 2^(e + 1)
Quantum(top) ==
  CHOOSE q \in { 1, 2, 4, 8, 16, 32, 64, 128, 256, 512, 1024 } :
    128 * q <= top /\ top < 256 * q

\* the float nearest to the number l (plus a fraction of a unit when more is set)
RoundToFloat(l, more) ==
  LET q == Quantum(l[1])
      rest == l[4] % q
      up == \/ 2 * rest > q
            \/ 2 * rest = q /\ (more \/ (l[4] \div q) % 2 = 1)
  IN Carry(<< l[1], l[2], l[3], l[4] - rest + (IF up THEN q ELSE 0) >>)

\* x + y
FloatAdd(x, y) ==
  RoundToFloat(Carry(<< x[1] + y[1], x[2] + y[2], x[3] + y[3], x[4] + y[4] >>), FALSE)

\* the float of the literal 0.k, k hundredths: k * 2^60 / 100 by long division
FloatOfHundredths(k) ==
  LET r3 == (k * Limb) % 100
      r2 == (r3 * Limb) % 100
      r1 == (r2 * Limb) % 100
      r0 == (r1 * Limb) % 100
  IN RoundToFloat(<< (k * Limb) \div 100, (r3 * Limb) \div 100, (r2 * Limb) \div 100,
                     (r1 * Limb) \div 100 >>, r0 # 0)

\* w[1] + w[2] + ... + w[n], added from the left
RECURSIVE FloatSumTo(_, _)
FloatSumTo(w, n) ==
  IF n = 1 THEN FloatOfHundredths(w[1])
  ELSE FloatAdd(FloatSumTo(w, n - 1), FloatOfHundredths(w[n]))

FloatSum(w) == FloatSumTo(w, Len(w))

RECURSIVE SumTo(_, _)
SumTo(w, n) == IF n = 0 THEN 0 ELSE SumTo(w, n - 1) + w[n]

\* the weights in hundredths, added as decimals
DecimalSum(w) == SumTo(w, Len(w))

\* 1.0 and the next float above it, 1.0000000000000002
FloatOne == << Limb, 0, 0, 0 >>
FloatAboveOne == << Limb, 0, 0, 256 >>

Stages == { "early", "middle", "late" }

\* the weights dict of _calculate_job_score_enhanced, by stage
ControllerWeights(stage) ==
  CASE stage = "early"  -> WeightsEarly
    [] stage = "middle" -> WeightsMiddle
    [] OTHER            -> WeightsLate

\* the sums of the weight vectors of both agents, as floats and as decimals
HybridFloatSums == [s \in Stages |-> FloatSum(_get_dynamic_weights(s))]
ControllerFloatSums == [s \in Stages |-> FloatSum(ControllerWeights(s))]
HybridDecimalSums == [s \in Stages |-> DecimalSum(_get_dynamic_weights(s))]
ControllerDecimalSums == [s \in Stages |-> DecimalSum(ControllerWeights(s))]

----------------------------------------------------------------------------
(* JSSComparisonFramework.run_comprehensive_comparison                      *)
(* (src/comparison_framework/comparison_framework.py)                       *)

\* the agents compare.py passes, by the policy that drives their episodes
custom_agents == << "hybrid", "lookahead" >>

get_name(agent) ==
  IF agent = "hybrid" THEN "HybridPriorityScoring" ELSE "AdaptiveLookAhead"

dispatching_rules == << "SPT", "FIFO", "MWR", "LWR", "MOR", "LOR", "CR" >>

\* the methods in the order run_comprehensive_comparison evaluates them
Methods ==
  [i \in 1 .. Len(custom_agents) |-> get_name(custom_agents[i])]
    \o dispatching_rules \o << "Random" >>

MethodNames == { Methods[i] : i \in 1 .. Len(Methods) }

RuleNames == { dispatching_rules[i] : i \in 1 .. Len(dispatching_rules) }

\* the policy whose episodes evaluate method i: a custom agent or the random baseline
PolicyOfMethod(i) == IF i <= Len(custom_agents) THEN custom_agents[i] ELSE "random"

\* random_agent of run_random_baseline: 0 on an empty mask, else any legal action
RandomCall ==
  /\ pc = "call"
  /\ policy = "random"
  /\ \E a \in 0 .. jobs :
       /\ IF \A b \in 0 .. jobs : ~legal_actions[b] THEN a = 0 ELSE legal_actions[a]
       /\ AgentReturned(AgentResult("random", a), EnvSnapshot)

\* a call of run_comprehensive_comparison(custom_agents, num_episodes)
StartComparison ==
  /\ comparing.status = "idle"
  /\ policy = "none"
  /\ comparing' = [status |-> "next", method |-> 1, episode |-> 0, failed |-> {}]
  /\ pc' = "idle"
  /\ UNCHANGED << stream_vars, instance_matrix, max_time_op, controller, num_people, policy, results,
                  env_vars, agent_vars, action, iteration_count, schedule,
                  completed_ops, episode, dec, committed_until, noop_run,
                  noop_run_near, noop_limit, dispatched, first_action >>

\* create_environment() and the reset of run_episode
FreshEpisode ==
  /\ EnvReset
  /\ pc' = "call"
  /\ dec' = NoDecision
  /\ action' = -1
  /\ UNCHANGED << stream_vars, instance_matrix, max_time_op, controller, num_people, agent_vars,
                  iteration_count, schedule, completed_ops, episode, committed_until,
                  noop_run, noop_run_near, noop_limit, dispatched, first_action >>

\* run_agent_evaluation or run_random_baseline starts its first episode
StartEvaluation ==
  /\ comparing.status = "next"
  /\ comparing.method <= Len(Methods)
  /\ Methods[comparing.method] \notin RuleNames
  /\ policy' = PolicyOfMethod(comparing.method)
  /\ comparing' = [comparing EXCEPT !.status = "episode", !.episode = 1]
  /\ FreshEpisode
  /\ UNCHANGED results

\* lines 239-241 and 254: no handler, the exception leaves run_comprehensive_comparison
AfterRaise(c) ==
  [c EXCEPT !.status = "raised", !.failed = @ \cup { Methods[c.method] }]

\* an episode of the evaluation ended: the next episode on a new environment, the
\* statistics recorded under the method's name (the environment is closed and
\* dropped), or the exception of the episode
EndEpisode ==
  /\ comparing.status = "episode"
  /\ pc \in { "finished", "raised" }
  /\ IF pc = "raised"
       THEN /\ comparing' = AfterRaise(comparing)
            /\ pc' = "idle"
            /\ UNCHANGED << results, env_vars, dec, action >>
       ELSE IF comparing.episode < num_episodes
         THEN /\ comparing' = [comparing EXCEPT !.episode = @ + 1]
              /\ EnvReset
              /\ pc' = "call"
              /\ dec' = NoDecision
              /\ action' = -1
              /\ UNCHANGED results
         ELSE /\ results' = results \cup { Methods[comparing.method] }
              /\ comparing' = [comparing EXCEPT !.status = "next", !.method = @ + 1]
              /\ EnvReset
              /\ pc' = "idle"
              /\ dec' = NoDecision
              /\ action' = -1
  /\ UNCHANGED << config_vars, stream_vars, agent_vars, iteration_count, schedule, completed_ops,
                  episode, committed_until, noop_run, noop_run_near, noop_limit,
                  dispatched, first_action >>

\* lines 244-250: a dispatching rule is evaluated inside try/except; the rules are
\* code of JSSEnv.dispatching, their evaluation returns statistics or raises
EvaluateRule ==
  /\ comparing.status = "next"
  /\ comparing.method <= Len(Methods)
  /\ Methods[comparing.method] \in RuleNames
  /\ \E raises \in BOOLEAN :
       IF raises
         THEN /\ Cardinality(comparing.failed \cap RuleNames) < MaxRuleFailures
              /\ comparing' = [comparing EXCEPT !.method = @ + 1,
                                               !.failed = @ \cup { Methods[comparing.method] }]
              /\ UNCHANGED results
         ELSE /\ results' = results \cup { Methods[comparing.method] }
              /\ comparing' = [comparing EXCEPT !.method = @ + 1]
  /\ UNCHANGED << config_vars, stream_vars, env_vars, agent_vars, pc, action, iteration_count,
                  schedule, completed_ops, episode, dec, committed_until, noop_run,
                  noop_run_near, noop_limit, dispatched, first_action >>

\* return self._create_results_dataframe()
FinishComparison ==
  /\ comparing.status = "next"
  /\ comparing.method > Len(Methods)
  /\ comparing' = [comparing EXCEPT !.status = "returned"]
  /\ UNCHANGED << config_vars, stream_vars, results, env_vars, agent_vars, pc, action,
                  iteration_count, schedule, completed_ops, episode, dec,
                  committed_until, noop_run, noop_run_near, noop_limit, dispatched,
                  first_action >>

InitCompare == InitFor(AgentConfigurations, { "none" })

NextCompare ==
  \/ StartComparison
  \/ StartEvaluation
  \/ HybridCall
  \/ LookAheadCall
  \/ RandomCall
  \/ AgentStep
  \/ EndEpisode
  \/ EvaluateRule
  \/ FinishComparison

SpecCompare == InitCompare /\ [][NextCompare]_vars

----------------------------------------------------------------------------
(* Properties                                                               *)

\* every machine of the instance has at least one qualified person
FeasibleController == \A m \in MachineIds : QualifiedIdx(m) # {}

\* the kinds of return that select no job
NonSelectingKinds == { "defer", "no_candidate" }

\* C1: whenever __call__ returns on a mask that marks at least one action legal, the
\* returned action lies in 0..jobs and the mask marks it legal, on every return path.
C1_ReturnedActionLegal ==
  (pc = "step" /\ \E a \in 0 .. jobs : legal_actions[a])
    => (action \in 0 .. jobs /\ legal_actions[action])

\* C2, as stated: with a feasible controller the no-op is never returned at more than
\* max_consecutive_no_ops consecutive decisions that each had a legal job with
\* remaining operations, whatever the clock advances between the decisions.
C2_NoOpRunWithinCap ==
  FeasibleController => noop_run <= max_consecutive_no_ops

\* C2, amended: with a feasible controller the no-op is never returned at more than
\* max_consecutive_no_ops consecutive decisions that each had a legal job with
\* remaining operations and between which the clock never advanced by more than 1.
C2_NearNoOpRunWithinCap ==
  FeasibleController => noop_run_near <= max_consecutive_no_ops

\* the cap was reached: max_consecutive_no_ops no-ops in a row, a legal job at each
C2_CapReached ==
  /\ FeasibleController
  /\ pc = "step"
  /\ dec.kind = "defer"
  /\ noop_run_near = max_consecutive_no_ops

\* C3: within an episode every newly committed assignment starts no earlier than the
\* end_time of every assignment committed before to the same person, so the intervals
\* committed to one person are pairwise disjoint.
C3_NoDoubleBooking ==
  (pc = "step" /\ dec.kind \in SelectingKinds)
    => /\ dec.chosen.start_time >= dec.until
       /\ dec.chosen.end_time >= dec.chosen.start_time

\* a job was committed to a person who was still busy at the decision
C3_BookedBusyPerson ==
  /\ pc = "step"
  /\ dec.kind \in SelectingKinds
  /\ dec.until > dec.clock
  /\ dec.chosen.start_time >= dec.until

\* C4: the second episode of the same agent instance, on the same instance and
\* controller and from a freshly reset environment, takes the same actions as the
\* first; here, its first action is the first action of the first episode.
C4_SameFirstAction ==
  (episode = 2 /\ pc = "step" /\ iteration_count = 1) => action = first_action

\* C5: at the first decision of every episode the assignment table is empty, the
\* consecutive-no-op counter is 0 and the last-action time is 0.
C5_FreshAtFirstDecision ==
  (pc = "call" /\ iteration_count = 0)
    => /\ people_assignments = << >>
       /\ consecutive_no_ops = 0
       /\ last_action_time = 0

\* the start times of the candidates of the last decision, from the table it saw
StartsSeen ==
  { _find_best_person_machine_combination(dec.table, j, dec.clock).start_time :
      j \in available_jobs }

\* C6: whenever __call__ returns without selecting a job although a legal job with
\* remaining operations exists, no candidate could start by the clock, the counter
\* is below the cap, the smallest wait exceeds max(0.1 * max_time_op, 1) and more
\* than 0.8 of the people are busy.
C6_DefersOnlyUnderConditions ==
  (pc = "step" /\ dec.kind \in NonSelectingKinds /\ all_legal_jobs # {})
    => /\ \A s \in StartsSeen : s > dec.clock
       /\ dec.no_ops < 5
       /\ \A s \in StartsSeen : 10 * (s - dec.clock) > Max(max_time_op, 10)
       /\ 5 * Cardinality({ i \in 1 .. Len(dec.table) :
                               dec.table[i].end_time > dec.clock })
            > 4 * num_people

\* a decision deferred while a legal job with remaining operations existed
C6_Deferred ==
  /\ pc = "step"
  /\ dec.kind = "defer"
  /\ all_legal_jobs # {}
  /\ StartsSeen # {}

\* C7: with a feasible controller and a clock that advances on every no-op step, a
\* run of consecutive no-op returns with a legal job present is no longer than the
\* time that was left, when the run began, until the last assignment of the table
\* ends; so the agent cannot defer forever and returns a job index.
C7_DeferralRunEnds ==
  (FeasibleController /\ noop_run > 0) => noop_run <= noop_limit

\* a job was selected right after two or more deferrals
C7_SelectedAfterDeferrals ==
  /\ FeasibleController
  /\ pc = "step"
  /\ dec.kind \in SelectingKinds
  /\ dec.no_ops >= 2
  /\ action < jobs

\* C8: at a decision where some legal job with remaining operations needs a machine
\* nobody is qualified for, __call__ raises instead of returning, also when other
\* legal jobs have qualified people, and the decision commits no assignment.
C8_RaisesOnUnstaffedMachine ==
  (/\ pc \in { "step", "raised" }
   /\ \E j \in JobIds :
        /\ legal_actions[j]
        /\ todo_time_step_job[j] < machines
        /\ \A i \in 1 .. Len(controller) :
             MachineOf(j, todo_time_step_job[j]) \notin controller[i][2])
    => /\ pc = "raised"
       /\ \A i \in 1 .. Len(people_assignments) :
            \E k \in 1 .. Len(dec.before) : dec.before[k] = people_assignments[i]

\* the error was raised at a decision where another legal job had a qualified person
C8_RaisedWithStaffedJob ==
  /\ pc = "raised"
  /\ available_jobs # {}
  /\ dec.before # << >>

\* C9: the schedule of a run_episode never holds two tasks for the same job and
\* operation, also when the same job is selected again.
C9_OneTaskPerOperation ==
  \A i, k \in 1 .. Len(schedule) :
    (schedule[i].job_id = schedule[k].job_id /\ schedule[i].op = schedule[k].op)
      => i = k

\* an operation was dispatched again and not recorded a second time
C9_DispatchedAgain ==
  /\ dispatched > Len(schedule)
  /\ Len(schedule) > 0

\* C10: when run_episode ends because the environment reports done, each job has as
\* many recorded tasks as it has operations, and the schedule has as many tasks as
\* the instance has operations.
C10_CompleteSchedule ==
  (pc = "finished" /\ env_done)
    => /\ \A j \in JobIds :
            Cardinality({ i \in 1 .. Len(schedule) : schedule[i].job_id = j }) = OpsOf(j)
       /\ Len(schedule) = jobs * machines

\* an episode ended on done with every operation of every job dispatched
C10_EndedOnDone ==
  /\ pc = "finished"
  /\ env_done
  /\ ~truncated
  /\ Len(schedule) > 0

\* C11: run_episode always terminates: it makes at most 10 * jobs * machines
\* decisions, one environment step each, and then returns, also when the
\* environment never reports done.
C11_EpisodeTerminates ==
  /\ [](iteration_count <= IterationFactor * jobs * machines)
  /\ <>(pc \in { "finished", "raised" })

\* the loop ended on the iteration cap, the environment never having reported done
C11_EndedOnIterationCap ==
  /\ pc = "finished"
  /\ ~env_done
  /\ ~truncated
  /\ iteration_count = IterationFactor * jobs * machines

\* C12: when the mask's length differs from jobs + 1, __call__ returns the no-op
\* index jobs and leaves the assignment table, the consecutive-no-op counter and
\* the last-action time unchanged.
C12_BadMaskReturnsNoOp ==
  (pc = "step" /\ dec.kind = "bad_mask")
    => /\ action = jobs
       /\ people_assignments = dec.before
       /\ consecutive_no_ops = dec.no_ops
       /\ last_action_time = dec.last

\* a mask of the wrong length was answered while the table held an expired entry
\* and the clock had moved on since the last decision
C12_BadMaskSeen ==
  /\ pc = "step"
  /\ dec.kind = "bad_mask"
  /\ Cardinality(DOMAIN legal_actions) # jobs + 1
  /\ \E i \in 1 .. Len(dec.before) : dec.before[i].end_time <= current_time_step
  /\ current_time_step > dec.last + 1

\* the entries of a table that belong to other people than p, in table order
OthersOf(pa, p) == SelectSeq(pa, LAMBDA a : a.person_id # p)

\* C13: whenever __call__ returns a job j through a selection tier, on return the
\* table maps the person chosen for j to the machine of j's next operation, with
\* end_time = j's computed start_time + duration and job_id = j, the counter is
\* 0, and no other person's entry was changed by the commit.
C13_CommitOnSelection ==
  (pc = "step" /\ dec.kind \in SelectingKinds)
    => /\ action \in JobIds
       /\ HasAssignment(people_assignments, dec.chosen.person_id)
       /\ Cardinality({ i \in 1 .. Len(people_assignments) :
                          people_assignments[i].person_id = dec.chosen.person_id }) = 1
       /\ AssignmentOf(people_assignments, dec.chosen.person_id) =
            [person_id |-> dec.chosen.person_id,
             machine_id |-> NextMachine(action),
             end_time |-> dec.chosen.start_time
                            + ProcTime(action, todo_time_step_job[action]),
             job_id |-> action]
       /\ consecutive_no_ops = 0
       /\ OthersOf(people_assignments, dec.chosen.person_id)
            = OthersOf(dec.table, dec.chosen.person_id)

\* a job was selected by a tier other than the immediate one, for a person whose
\* earlier entry the commit overwrote, while another person held an entry
C13_CommittedBesideOthers ==
  /\ pc = "step"
  /\ dec.kind \in SelectingKinds \ { "immediate" }
  /\ HasAssignment(dec.table, dec.chosen.person_id)
  /\ OthersOf(dec.table, dec.chosen.person_id) # << >>

\* C14: for every decision of HybridPriorityScoringAgent and of
\* AdaptiveLookAheadAgent on a mask with at least one legal action, the returned
\* action is in [0, jobs] and the mask marks it legal.
C14_AgentActionLegal ==
  (/\ pc = "step"
   /\ policy \in { "hybrid", "lookahead" }
   /\ \E a \in 0 .. jobs : legal_actions[a])
    => /\ action \in 0 .. jobs
       /\ legal_actions[action]

\* the hybrid agent returned the no-op on its random draw while a job was legal
C14_NoOpDrawnBesideLegalJob ==
  /\ pc = "step"
  /\ policy = "hybrid"
  /\ dec.kind = "random_noop"
  /\ action = jobs
  /\ legal_job_indices # {}

\* C15: HybridPriorityScoringAgent returns the no-op while at least one job is
\* legal only if the no-op is legal and progress_ratio < 0.3; in every other case
\* with a legal job it returns the legal job with the maximum composite score,
\* the lowest job index winning ties.
C15_HybridSelection ==
  (pc = "step" /\ policy = "hybrid" /\ \E j \in JobIds : legal_actions[j])
    => IF action = jobs
         THEN /\ legal_actions[jobs]
              /\ 10 * SumTodo(jobs) < 3 * jobs * machines
         ELSE /\ action \in JobIds
              /\ legal_actions[action]
              /\ \A k \in JobIds :
                   legal_actions[k] =>
                     \/ _calculate_job_score(action, progress_stage)
                          > _calculate_job_score(k, progress_stage)
                     \/ /\ _calculate_job_score(action, progress_stage)
                            = _calculate_job_score(k, progress_stage)
                        /\ action <= k

\* the hybrid agent returned a job that ties with another legal job on the
\* composite score, on an instance with nonzero durations
C15_TieBrokenByIndex ==
  /\ pc = "step"
  /\ policy = "hybrid"
  /\ dec.kind = "best"
  /\ max_time_op > 0
  /\ \E k \in JobIds :
       /\ k # action
       /\ legal_actions[k]
       /\ _calculate_job_score(action, progress_stage)
            = _calculate_job_score(k, progress_stage)

\* C16: HybridPriorityScoringAgent.__call__ never raises: for every environment
\* state, including max_time_op = 0, each of its heuristics returns a value
\* instead of failing on a zero divisor.
C16_HybridNeverRaises == policy = "hybrid" => pc # "raised"

\* C17: AdaptiveLookAheadAgent.__call__ is read-only: after it returns, the
\* environment's per-job operation indices, machine availabilities, clock and
\* legality mask are exactly what they were before the call.
C17_LookAheadReadOnly ==
  [][(pc = "call" /\ policy = "lookahead" /\ pc' = "step")
       => /\ todo_time_step_job' = todo_time_step_job
          /\ time_until_available_machine' = time_until_available_machine
          /\ current_time_step' = current_time_step
          /\ legal_actions' = legal_actions]_vars

\* the look-ahead agent returned after scoring several candidates, in the course
\* of an episode
C17_ScoredSeveralCandidates ==
  /\ pc = "step"
  /\ policy = "lookahead"
  /\ dec.kind = "best"
  /\ Cardinality(legal_job_indices) > 1
  /\ current_time_step > 0

\* C18: in run_comprehensive_comparison, when the evaluation of one policy (a
\* custom agent or a dispatching rule) raises, the remaining policies are still
\* evaluated and their results are recorded.
C18_FailuresIsolated ==
  comparing.status \in { "returned", "raised" }
    => \A m \in MethodNames : m \in results \/ m \in comparing.failed

\* C19 as stated: in each of the three progress regimes the six weights of
\* HybridPriorityScoringAgent sum to exactly 1.0, and the seven weights of the
\* controller agent's enhanced score sum to exactly 1.0.
C19_WeightsSumToOne ==
  /\ HybridFloatSums[progress_stage] = FloatOne
  /\ ControllerFloatSums[progress_stage] = FloatOne

\* C19 as amended: in each regime the weights of both agents sum to 1 as the
\* decimal values the code writes; added as floats in the order the code lists
\* them they give exactly 1.0, except the controller's middle-stage weights,
\* which give 1.0000000000000002.
C19_WeightSums ==
  /\ HybridDecimalSums[progress_stage] = 100
  /\ ControllerDecimalSums[progress_stage] = 100
  /\ HybridFloatSums[progress_stage] = FloatOne
  /\ ControllerFloatSums[progress_stage] =
       IF progress_stage = "middle" THEN FloatAboveOne ELSE FloatOne

\* the controller agent selected a job by its scores in the middle stage
C19_ScoredInMiddleStage ==
  /\ pc = "step"
  /\ dec.kind \in SelectingKinds
  /\ progress_stage = "middle"

\* C20: in the end-to-end example (Job0 = [(M0,3),(M1,2)], Job1 = [(M1,4),(M0,1)],
\* two people both qualified for M0 and M1) the controller agent's episode raises
\* no configuration error, ends with the environment done, has recorded exactly 4
\* scheduled tasks, and its makespan (the clock at the end) is no larger than the
\* makespan of shortest-processing-time dispatching on the same instance.
C20_ExampleEpisode ==
  /\ pc # "raised"
  /\ pc = "finished" =>
       /\ env_done
       /\ Len(schedule) = 4
       /\ current_time_step <= SptMakespan

\* the example episode ended: four tasks, both people used, the clock at the
\* makespan of the SPT rule
C20_ExampleEnded ==
  /\ pc = "finished"
  /\ env_done
  /\ Len(schedule) = 4
  /\ { schedule[i].person_id : i \in 1 .. Len(schedule) } = { 1, 2 }
  /\ current_time_step = SptMakespan
  /\ SptMakespan = 6

\* C21: the ScheduledTask run_episode appends for a dispatched job carries the
\* person, the start_time and the end_time of the assignment tuple the agent
\* computed and committed for that job at the decision of the same iteration.
C21_RecordMatchesCommit ==
  [][(/\ pc = "step"
      /\ dec.kind \in SelectingKinds
      /\ Len(schedule') = Len(schedule) + 1)
       => /\ schedule'[Len(schedule')].job_id = action
          /\ schedule'[Len(schedule')].person_id = dec.chosen.person_id
          /\ schedule'[Len(schedule')].start_time = dec.chosen.start_time
          /\ schedule'[Len(schedule')].end_time = dec.chosen.end_time]_vars

\* two tasks of the schedule given to the same person overlap in time
TasksOverlap(a, b) ==
  /\ a.person_id = b.person_id
  /\ a.start_time < b.end_time
  /\ b.start_time < a.end_time

\* C22: in the schedule of run_episode no two ScheduledTasks of the same person
\* have overlapping intervals [start_time, end_time).
C22_NoPersonOverlapInSchedule ==
  \A i, k \in 1 .. Len(schedule) : i < k => ~TasksOverlap(schedule[i], schedule[k])

\* the controller entry of person p lists machine m
IsQualified(p, m) ==
  \E i \in 1 .. Len(controller) : controller[i][1] = p /\ m \in controller[i][2]

\* C23: every assignment the controller agent commits and every ScheduledTask it
\* records pairs a machine with a person whose controller entry lists the machine.
C23_OnlyQualifiedPeople ==
  /\ \A i \in 1 .. Len(people_assignments) :
       IsQualified(people_assignments[i].person_id, people_assignments[i].machine_id)
  /\ \A i \in 1 .. Len(schedule) :
       IsQualified(schedule[i].person_id, schedule[i].machine_id)

\* tasks were recorded for two people who are each qualified for one machine only,
\* while an assignment is in the table
C23_TwoSpecialistsRecorded ==
  /\ Len(controller) = 2
  /\ \A i \in 1 .. Len(controller) : Cardinality(controller[i][2]) = 1
  /\ { schedule[i].person_id : i \in 1 .. Len(schedule) } = { 1, 2 }
  /\ people_assignments # << >>

\* the availability of the i-th person of the controller, read off the table: the
\* clock without an entry, else the later of the clock and the entry's end_time
AvailabilityIn(pa, i, t) ==
  IF \A n \in 1 .. Len(pa) : pa[n].person_id # controller[i][1] THEN t
  ELSE LET e == CHOOSE n \in 1 .. Len(pa) : pa[n].person_id = controller[i][1]
       IN IF pa[e].end_time > t THEN pa[e].end_time ELSE t

\* c is the candidate tuple of job j for the table pa at clock t
IsCandidateOf(c, pa, j, t) ==
  LET m == instance_matrix[j + 1][todo_time_step_job[j] + 1][1]
      duration == instance_matrix[j + 1][todo_time_step_job[j] + 1][2]
      ready == t + time_until_available_machine[m]
  IN \E i \in 1 .. Len(controller) :
       /\ m \in controller[i][2]
       /\ \A k \in 1 .. Len(controller) :
            m \in controller[k][2] =>
              \/ AvailabilityIn(pa, i, t) < AvailabilityIn(pa, k, t)
              \/ AvailabilityIn(pa, i, t) = AvailabilityIn(pa, k, t) /\ i <= k
       /\ c.person_id = controller[i][1]
       /\ c.machine_id = m
       /\ c.start_time = (IF AvailabilityIn(pa, i, t) >= ready
                            THEN AvailabilityIn(pa, i, t) ELSE ready)
       /\ c.end_time = c.start_time + duration

\* C24: the candidate tuple of every legal job with remaining operations is: the
\* qualified person with the smallest availability (the clock without an
\* assignment, else max(clock, end_time); the first in controller order on ties),
\* start_time = max(that availability, clock + time_until_available_machine of the
\* job's machine), end_time = start_time + the operation's duration.
C24_CandidateTuple ==
  (pc = "step" /\ dec.kind \in SelectingKinds \cup { "defer" })
    => /\ \A j \in available_jobs :
            IsCandidateOf(job_info(dec.table, dec.clock)[j], dec.table, j, dec.clock)
       /\ dec.kind \in SelectingKinds
            => dec.chosen = job_info(dec.table, dec.clock)[action]

\* a decision chose the second person of the controller, whose candidate starts
\* after the clock, while the table held an assignment
C24_SecondPersonLater ==
  /\ pc = "step"
  /\ dec.kind \in SelectingKinds
  /\ Len(controller) = 2
  /\ dec.chosen.person_id = controller[2][1]
  /\ dec.chosen.start_time > dec.clock
  /\ dec.table # << >>

\* the candidates and the scores of the last decision, from the table it saw
CandidatesSeen == job_info(dec.table, dec.clock)

ScoresSeen == job_scores(CandidatesSeen, dec.clock)

\* j has the highest score among the jobs of S, the lowest index among equals
IsBestOf(j, S, scores) ==
  /\ j \in S
  /\ \A k \in S : scores[j] > scores[k] \/ (scores[j] = scores[k] /\ j <= k)

ImmediateSeen ==
  { j \in DOMAIN CandidatesSeen : CandidatesSeen[j].start_time <= dec.clock }

\* a decision that scored candidates
ScoredDecision == pc = "step" /\ dec.kind \in SelectingKinds \cup { "defer" }

\* C25: if at a decision at least one candidate has start_time <= clock + 0.1, the
\* agent returns the highest-scored of those immediate candidates (the lowest job
\* index on ties), also when a candidate that is not immediate scores strictly
\* higher, and whatever the no-op counter is.
C25_BestImmediateReturned ==
  (ScoredDecision /\ ImmediateSeen # {})
    => /\ dec.kind = "immediate"
       /\ IsBestOf(action, ImmediateSeen, ScoresSeen)

\* an immediate candidate was returned although a candidate that could not start
\* yet scored strictly higher
C25_PassedOverHigherScore ==
  /\ ScoredDecision
  /\ dec.kind = "immediate"
  /\ \E k \in DOMAIN CandidatesSeen :
       /\ CandidatesSeen[k].start_time > dec.clock
       /\ ScoresSeen[k] > ScoresSeen[action]

\* the table holds the assignment of candidate c of job j
HoldsCommitOf(pa, j, c) ==
  \E i \in 1 .. Len(pa) :
    /\ pa[i].person_id = c.person_id
    /\ pa[i].machine_id = c.machine_id
    /\ pa[i].end_time = c.end_time
    /\ pa[i].job_id = j

\* C26: if no candidate is immediate and the consecutive-no-op counter is >= 5, the
\* agent returns the globally highest-scored candidate whatever its wait, commits
\* its assignment and resets the counter to 0.
C26_CapForcesBestCandidate ==
  (ScoredDecision /\ ImmediateSeen = {} /\ dec.no_ops >= 5)
    => /\ dec.kind = "cap"
       /\ IsBestOf(action, DOMAIN CandidatesSeen, ScoresSeen)
       /\ HoldsCommitOf(people_assignments, action, CandidatesSeen[action])
       /\ consecutive_no_ops = 0

\* the cap forced a candidate whose wait is above the acceptable wait
C26_ForcedDespiteLongWait ==
  /\ ScoredDecision
  /\ ImmediateSeen = {}
  /\ dec.no_ops >= 5
  /\ action < jobs
  /\ 10 * (CandidatesSeen[action].start_time - dec.clock) > Max(max_time_op, 10)

\* the smallest wait over the candidates of the last decision
MinWaitSeen ==
  CHOOSE w \in { CandidatesSeen[j].start_time - dec.clock : j \in DOMAIN CandidatesSeen } :
    \A j \in DOMAIN CandidatesSeen : w <= CandidatesSeen[j].start_time - dec.clock

\* the candidates whose wait is at most w + max(1.0, 0.2 * w), w the smallest wait
BandSeen ==
  { j \in DOMAIN CandidatesSeen :
      10 * (CandidatesSeen[j].start_time - dec.clock)
        <= 10 * MinWaitSeen + (IF 2 * MinWaitSeen > 10 THEN 2 * MinWaitSeen ELSE 10) }

\* C27: if no candidate is immediate, the counter is below the cap and the smallest
\* wait w satisfies w <= max(0.1 * max_time_op, 1.0), the agent returns the
\* highest-scored candidate among those whose wait is <= w + max(1.0, 0.2 * w),
\* which need not be the candidate with the smallest wait.
C27_BestWithinWaitBand ==
  (/\ ScoredDecision
   /\ ImmediateSeen = {}
   /\ dec.no_ops < 5
   /\ 10 * MinWaitSeen <= (IF max_time_op > 10 THEN max_time_op ELSE 10))
    => /\ dec.kind = "short_wait"
       /\ IsBestOf(action, BandSeen, ScoresSeen)

\* the short-wait branch returned a candidate that waits longer than another one
C27_NotTheShortestWait ==
  /\ ScoredDecision
  /\ dec.kind = "short_wait"
  /\ CandidatesSeen[action].start_time - dec.clock > MinWaitSeen

\* the people of the table the decision saw whose entry ends after its clock
BusySeen == { i \in 1 .. Len(dec.table) : dec.table[i].end_time > dec.clock }

\* C28: a deferral happens only with no immediate candidate, the counter below the
\* cap, the smallest wait above max(0.1 * max_time_op, 1.0) and more than 0.8 of
\* the people busy; it raises the consecutive-no-op counter by exactly 1, returns
\* the no-op (action 0 where the no-op is illegal) and leaves the assignment table
\* as it was after the expiry step.
C28_DeferralOnlyCounts ==
  (pc = "step" /\ dec.kind = "defer")
    => /\ ImmediateSeen = {}
       /\ dec.no_ops < 5
       /\ 10 * MinWaitSeen > (IF max_time_op > 10 THEN max_time_op ELSE 10)
       /\ 10 * Cardinality(BusySeen) > 8 * num_people
       /\ consecutive_no_ops = dec.no_ops + 1
       /\ people_assignments = dec.table
       /\ action = (IF legal_actions[jobs] THEN jobs ELSE 0)

\* a deferral that follows a counted no-op, on a table that holds commitments
C28_SecondDeferral ==
  /\ pc = "step"
  /\ dec.kind = "defer"
  /\ dec.no_ops >= 1
  /\ consecutive_no_ops = dec.no_ops + 1
  /\ dec.table # << >>

\* a call of the agent whose mask has the expected length
ValidatedCall == pc = "call" /\ Cardinality(DOMAIN legal_actions) = jobs + 1

\* C29: a validated decision sets the last-action time to the current clock,
\* whatever it returns, and nothing else changes that time, so it is the clock of
\* the previous validated decision; the counter the decision goes on with is 0
\* if the clock exceeds that time by more than 1.0 and is the counter of the
\* previous decision otherwise.
C29_TimeBasedReset ==
  [][IF ValidatedCall
       THEN /\ last_action_time' = current_time_step
            /\ dec'.last = last_action_time
            /\ dec'.no_ops = (IF current_time_step > last_action_time + 1
                                THEN 0 ELSE consecutive_no_ops)
       ELSE last_action_time' = last_action_time]_vars

\* a deferral right after another no-op, more than one time unit later: the counter
\* the earlier deferral had raised was reset before this one counted again
C29_ResetAfterDeferral ==
  /\ pc = "step"
  /\ dec.kind = "defer"
  /\ noop_run >= 2
  /\ dec.clock > dec.last + 1
  /\ dec.no_ops = 0
  /\ last_action_time = dec.clock

\* a decision that went past the mask check, before the loop steps on
ValidatedDecision == pc \in { "step", "raised" } /\ dec.kind \notin { "none", "stepped", "bad_mask" }

\* C30: after the expiry step of a validated decision at clock t the assignment
\* table holds no entry with end_time <= t, and it still holds every entry with
\* end_time > t that it held before the decision.
C30_ExpiryKeepsLiveEntries ==
  ValidatedDecision
    => /\ \A i \in 1 .. Len(dec.table) : dec.table[i].end_time > dec.clock
       /\ \A i \in 1 .. Len(dec.before) :
            dec.before[i].end_time > dec.clock
              => \E k \in 1 .. Len(dec.table) : dec.table[k] = dec.before[i]

\* a decision whose table held an entry ending exactly at the clock, which went,
\* and an entry ending later, which stayed
C30_OneGoneOneKept ==
  /\ ValidatedDecision
  /\ \E i \in 1 .. Len(dec.before) : dec.before[i].end_time = dec.clock
  /\ \E i \in 1 .. Len(dec.before) : dec.before[i].end_time > dec.clock
  /\ Len(dec.table) < Len(dec.before)

\* the critical-path term of candidate j as the decision computed it, ScoreScale
\* times the float term
CriticalPathTermSeen(j) ==
  ScoreTerms(j, CandidatesSeen[j], Max(0, CandidatesSeen[j].start_time - dec.clock))[6]

\* ScoreScale times (remaining operations of the job / operations per job)
RemainingOpsRatio(j) ==
  10 * max_time_op * num_people * (machines - CandidatesSeen[j].current_op)

\* C31: in the controller agent's composite score the critical-path term of every
\* candidate equals its remaining-operations ratio, so of two candidates the one
\* with more remaining operations never has the smaller critical-path term.
C31_CriticalPathIsRemainingRatio ==
  ScoredDecision
    => /\ \A j \in DOMAIN CandidatesSeen : CriticalPathTermSeen(j) = RemainingOpsRatio(j)
       /\ \A j, k \in DOMAIN CandidatesSeen :
            CandidatesSeen[j].current_op < CandidatesSeen[k].current_op
              => CriticalPathTermSeen(j) >= CriticalPathTermSeen(k)

\* the people whose entry of the table ends after the clock
ActivePeople ==
  { people_assignments[i].person_id :
      i \in { k \in 1 .. Len(people_assignments) :
                people_assignments[k].end_time > current_time_step } }

\* the people the agent has booked so far in the episode
PeopleUsed == { controller[i][1] : i \in { k \in 1 .. Len(controller) : committed_until[k] > 0 } }

\* C32: at every moment of an episode at most num_people people have an active
\* assignment (end_time > clock), and the people the agent assigns are among
\* num_people people: it never uses more than num_people different people.
C32_WithinNumPeople ==
  /\ Cardinality(ActivePeople) <= num_people
  /\ Cardinality(PeopleUsed) <= num_people

\* a decision that called _get_resource_utilization (line 270)
UtilizationAsked == pc = "step" /\ dec.kind \in { "defer", "progress" }

\* C33: at every call of _get_resource_utilization made by a decision, after the
\* expiry step, total_wait_time and so avg_person_wait is 0, and the decision
\* defers if and only if more than 0.8 of the num_people people are busy.
C33_DeferralByUtilizationAlone ==
  UtilizationAsked
    => /\ TotalWaitTime(dec.table, dec.clock) = 0
       /\ dec.kind = "defer" <=> 10 * Cardinality(BusySeen) > 8 * num_people

\* a decision that asked with somebody booked and went on to select a job, and so
\* did not defer, because too few people were busy
C33_BusyButNotDeferred ==
  /\ UtilizationAsked
  /\ dec.kind = "progress"
  /\ BusySeen # {}

\* __call__ went past the candidate loop (lines 153-186) and returned
SelectionReached == pc = "step" /\ dec.kind \notin { "none", "stepped", "bad_mask" }

\* C39: whenever __call__ reaches the candidate selection without raising, every
\* legal job with remaining operations is a candidate (available_jobs equals
\* all_legal_jobs), and the branch that forces the first incomplete legal job is
\* not the one taken.
C39_NoForcedFirstJob ==
  SelectionReached
    => /\ available_jobs = all_legal_jobs
       /\ DOMAIN CandidatesSeen = all_legal_jobs
       /\ dec.kind # "forced_first"

\* a decision that returned a job although the controller leaves a machine without
\* any qualified person: no legal job needed that machine
C39_SelectedBesideUnstaffedMachine ==
  /\ SelectionReached
  /\ all_legal_jobs # {}
  /\ dec.kind \in SelectingKinds
  /\ \E m \in 0 .. (machines - 1) : QualifiedIdx(m) = {}

\* C34: StreamAdaptiveLookAheadAgent.__call__ leaves the environment unchanged:
\* when it has scored its candidates and returned, the operation index of every
\* job and the clock are what they were when it was called, whether or not the
\* environment has _get_state and _set_state and whether its step returns four
\* values or five.
C34_StreamLookAheadReadOnly ==
  (pc = "step" /\ policy = "stream_lookahead" /\ dec.kind \in { "nothing_legal", "single", "best" })
    => /\ todo_time_step_job = lookahead.todo
       /\ current_time_step = lookahead.clock

\* a call of disconnect_client, or of send_to_client whose send fails, on a client
\* that has a subscribed session
CleanupCalled(t) ==
  /\ tasks[t].pc = "lock"
  /\ tasks[t].caller = "none"
  /\ connections[tasks[t].client].present
  /\ connections[tasks[t].client].subscribed # {}
  /\ \/ tasks[t].op = "disconnect"
     \/ tasks[t].op = "send" /\ SendRaises(connections[tasks[t].client])

\* the call has returned and the client is gone from its sessions and the table
CleanedUp(t) ==
  /\ tasks[t].pc = "done"
  /\ ~connections[tasks[t].client].present
  /\ \A s \in Sessions : tasks[t].client \notin sessions[s].subscribers

\* C35: every call of disconnect_client, and every call of send_to_client whose
\* send fails, on a client with at least one subscribed session terminates, and
\* then the client is in no session's subscriber set and not in the connection
\* table.
C35_CleanupTerminates ==
  \A t \in TaskIds : CleanupCalled(t) ~> CleanedUp(t)

\* C38: when a broadcast to the subscribers of a session is over, every
\* subscriber whose connection is active has been sent the message, also when
\* the send to another subscriber of the session failed.
C38_BroadcastReachesActiveSubscribers ==
  \A t \in TaskIds :
    (tasks[t].op = "broadcast" /\ tasks[t].pc \in { "done", "raised" })
      => \A c \in tasks[t].targets :
           (connections[c].present /\ connections[c].is_active)
             => c \in tasks[t].delivered


\* C36: once the status of a streaming session is 'failed' or 'cancelled', no
\* step (error event, comparison completion, cancellation, final status update)
\* changes it to 'completed'.
C36_FailedOrCancelledStays ==
  [][\A s \in Sessions :
       (sessions[s].present /\ sessions[s].status \in { "failed", "cancelled" })
         => sessions'[s].status # "completed"]_vars

EventIndices == 1 .. Len(events)

\* event j closes the method of the method_start at i
Closes(j, i) ==
  /\ events[j].type \in { "method_complete", "error" }
  /\ events[j].key = "method_name"
  /\ events[j].name = events[i].name

OneStartFirst ==
  \A i \in EventIndices : (events[i].type = "comparison_start") <=> (i = 1)

OneCompleteLast ==
  /\ \A i \in EventIndices : events[i].type = "comparison_complete" => i = Len(events)
  /\ framework.pc = "returned" =>
       (events # << >> /\ events[Len(events)].type = "comparison_complete")

MethodsClosed ==
  \A i, k \in EventIndices :
    (/\ i < k
     /\ events[i].type = "method_start"
     /\ events[k].type \in { "method_start", "comparison_complete" })
      => \E j \in (i + 1) .. (k - 1) : Closes(j, i)

CountAtComplete ==
  (events # << >> /\ events[Len(events)].type = "comparison_complete")
    => framework.completed_methods = framework.total_methods

\* C37: the callback receives one comparison_start, before every other event,
\* and one comparison_complete, after every other event; every method_start is
\* followed by a method_complete or an error event of that method before the
\* next method_start; and at comparison_complete the count of completed
\* methods is the number of methods, also when methods have failed.
C37_EventOrder ==
  OneStartFirst /\ OneCompleteLast /\ MethodsClosed /\ CountAtComplete

\* a comparison of at least two methods has completed although a method raised
\* and an episode of another one failed
C37_CompleteAfterFailures ==
  /\ framework.pc = "returned"
  /\ framework.total_methods >= 2
  /\ \E i \in EventIndices : events[i].type = "error" /\ events[i].key = "method_name"
  /\ \E i \in EventIndices : events[i].type = "error" /\ events[i].key = "agent_name"
  /\ events[Len(events)].type = "comparison_complete"

====
